---- MODULE Spec2Model ----
(***************************************************************************)
(* Model of scripts/auto_wrap_desc_zh.py: the tag-aware line wrapper for   *)
(* the zh column (tokenizer, protected-span detector, split chooser, line  *)
(* assembler) and the per-segment driver wrap_zh_desc_text.                *)
(*                                                                         *)
(* A text is a sequence of characters; a character is a one-element        *)
(* string.  Non-ASCII characters are written by code point ("U+FF0C" is    *)
(* the full-width comma).  All indices are 0-based as in the source.       *)
(***************************************************************************)
EXTENDS Integers, Sequences, FiniteSets

(* ------------------------------------------------------------------------ *)
(* Python list and string primitives                                        *)
(* ------------------------------------------------------------------------ *)

\* seq[i] for a 0-based index that is in range
Nth(seq, i) == seq[i + 1]

\* seq[a:b] for 0 <= a, b <= len(seq)
Slice(seq, a, b) == SubSeq(seq, a + 1, b)

\* True when seq[i] does not raise IndexError (i is never negative here)
InRange(seq, i) == 0 <= i /\ i < Len(seq)

Min(a, b) == IF a <= b THEN a ELSE b

Abs(a) == IF a < 0 THEN -a ELSE a

\* the smallest i in lo..hi-1 for which P(i) holds, or -1
RECURSIVE FirstIndex(_, _, _)
FirstIndex(P(_), lo, hi) ==
  IF lo >= hi THEN -1
  ELSE IF P(lo) THEN lo
  ELSE FirstIndex(P, lo + 1, hi)

\* text.startswith(prefix)
StartsWith(text, prefix) ==
  /\ Len(text) >= Len(prefix)
  /\ SubSeq(text, 1, Len(prefix)) = prefix

\* text.find(word, search_from): the lowest index >= search_from at which
\* word occurs in text, or -1
StrFind(text, word, search_from) ==
  FirstIndex(LAMBDA p : Slice(text, p, p + Len(word)) = word,
             search_from, Len(text) - Len(word) + 1)

(* ------------------------------------------------------------------------ *)
(* Module constants                                                         *)
(* ------------------------------------------------------------------------ *)

\* "并且", "同时", "然后", "因此", "因为", "等同于", "使得", "的"
PRIORITY_SPLIT_WORDS ==
  << <<"U+5E76", "U+4E14">>, <<"U+540C", "U+65F6">>, <<"U+7136", "U+540E">>,
     <<"U+56E0", "U+6B64">>, <<"U+56E0", "U+4E3A">>,
     <<"U+7B49", "U+540C", "U+4E8E">>, <<"U+4F7F", "U+5F97">>, <<"U+7684">> >>

\* set("，。；！？、,.;!?:：")
PUNCTUATION ==
  {"U+FF0C", "U+3002", "U+FF1B", "U+FF01", "U+FF1F", "U+3001",
   ",", ".", ";", "!", "?", ":", "U+FF1A"}

(* ------------------------------------------------------------------------ *)
(* TAG_PATTERN and the tokenizer                                            *)
(* ------------------------------------------------------------------------ *)

\* the least q in p+1..len-1 with text[q] in stops, or -1
NextOf(text, p, stops) ==
  FirstIndex(LAMBDA q : Nth(text, q) \in stops, p + 1, Len(text))

\* Faulty variant of TagMatchEnd: the pattern lacks the \{[^{}]*\} alternative
TagMatchEndBracketOnly(text, p) ==
  IF Nth(text, p) = "["
  THEN LET q == NextOf(text, p, {"[", "]"})
       IN IF q # -1 /\ Nth(text, q) = "]" /\ q >= p + 2 THEN q + 1 ELSE -1
  ELSE -1

\* TAG_PATTERN.match(text, p): the end (exclusive) of the match that starts at
\* p, or -1.  \[/?[^\[\]]+\] matches when the next bracket after the "[" is a
\* "]" with at least one character between (the optional "/" backtracks into
\* the class); \{[^{}]*\} matches when the next brace after the "{" is a "}".
TagMatchEnd(text, p) ==
  IF Nth(text, p) = "["
  THEN LET q == NextOf(text, p, {"[", "]"})
       IN IF q # -1 /\ Nth(text, q) = "]" /\ q >= p + 2 THEN q + 1 ELSE -1
  ELSE IF Nth(text, p) = "{"
  THEN LET q == NextOf(text, p, {"{", "}"})
       IN IF q # -1 /\ Nth(text, q) = "}" THEN q + 1 ELSE -1
  ELSE -1

\* the start of the next match finditer yields when scanning from pos, or -1
NextTagStart(text, pos) ==
  FirstIndex(LAMBDA p : TagMatchEnd(text, p) # -1, pos, Len(text))

\* one (ch, False) token per character of chars
CharTokens(chars) ==
  [k \in 1..Len(chars) |-> [text |-> <<chars[k]>>, is_tag |-> FALSE]]

\* Faulty variant of TokenizeFrom: the "if last < len(text)" block is missing,
\* so the characters after the last tag are lost
RECURSIVE TokenizeFromNoTail(_, _)
TokenizeFromNoTail(text, last) ==
  LET s == NextTagStart(text, last) IN
  IF s = -1
  THEN <<>>
  ELSE LET e == TagMatchEnd(text, s) IN
       CharTokens(Slice(text, last, s))
         \o <<[text |-> Slice(text, s, e), is_tag |-> TRUE]>>
         \o TokenizeFromNoTail(text, e)

\* Faulty variant of TokenizeFrom: the tag token is appended before the
\* characters that stand in front of it
RECURSIVE TokenizeFromTagFirst(_, _)
TokenizeFromTagFirst(text, last) ==
  LET s == NextTagStart(text, last) IN
  IF s = -1
  THEN CharTokens(Slice(text, last, Len(text)))
  ELSE LET e == TagMatchEnd(text, s) IN
       <<[text |-> Slice(text, s, e), is_tag |-> TRUE]>>
         \o CharTokens(Slice(text, last, s))
         \o TokenizeFromTagFirst(text, e)

\* the tokens appended from position last on: the characters before the next
\* match, the match as one tag token, and so on; the tail after the last match
RECURSIVE TokenizeFrom(_, _)
TokenizeFrom(text, last) ==
  LET s == NextTagStart(text, last) IN
  IF s = -1
  THEN CharTokens(Slice(text, last, Len(text)))
  ELSE LET e == TagMatchEnd(text, s) IN
       CharTokens(Slice(text, last, s))
         \o <<[text |-> Slice(text, s, e), is_tag |-> TRUE]>>
         \o TokenizeFrom(text, e)

tokenize_preserving_tags(text) == TokenizeFrom(text, 0)

(* ------------------------------------------------------------------------ *)
(* Tag names                                                                *)
(* ------------------------------------------------------------------------ *)

\* the length of the longest run of characters outside stops starting at p
RunLength(text, p, stops) ==
  LET q == FirstIndex(LAMBDA k : Nth(text, k) \in stops, p, Len(text))
  IN IF q = -1 THEN Len(text) - p ELSE q - p

\* "$" at position p: the end of the text, or just before a final newline
AtDollar(text, p) ==
  \/ p = Len(text)
  \/ p = Len(text) - 1 /\ Nth(text, p) = "\n"

\* Faulty variant of parse_open_tag_name: ^\[([^\]/]+)\]$, a name that does
\* not end at the first ":"
parse_open_tag_name_whole(tag_text) ==
  IF Len(tag_text) = 0 \/ tag_text[1] # "[" THEN <<>>
  ELSE LET k == RunLength(tag_text, 1, {"]", "/"})
           m == 1 + k
       IN IF k >= 1 /\ InRange(tag_text, m) /\ Nth(tag_text, m) = "]"
             /\ AtDollar(tag_text, m + 1)
          THEN Slice(tag_text, 1, m)
          ELSE <<>>

\* ^\[([^\]/:\]]+)(?::[^\]]*)?\]$ : group 1, or "" when there is no match.
\* Both classes are greedy and what follows them is outside the class, so
\* only the longest runs can match.
parse_open_tag_name(tag_text) ==
  IF Len(tag_text) = 0 \/ tag_text[1] # "[" THEN <<>>
  ELSE LET k == RunLength(tag_text, 1, {"]", "/", ":"})
           m == 1 + k
           r == IF InRange(tag_text, m) /\ Nth(tag_text, m) = ":"
                THEN m + 1 + RunLength(tag_text, m + 1, {"]"})
                ELSE m
       IN IF k >= 1 /\ InRange(tag_text, r) /\ Nth(tag_text, r) = "]"
             /\ AtDollar(tag_text, r + 1)
          THEN Slice(tag_text, 1, m)
          ELSE <<>>

\* ^\[/([^\]]+)\]$ : group 1, or "" when there is no match
parse_close_tag_name(tag_text) ==
  IF ~StartsWith(tag_text, <<"[", "/">>) THEN <<>>
  ELSE LET k == RunLength(tag_text, 2, {"]"})
           r == 2 + k
       IN IF k >= 1 /\ InRange(tag_text, r) /\ Nth(tag_text, r) = "]"
             /\ AtDollar(tag_text, r + 1)
          THEN Slice(tag_text, 2, r)
          ELSE <<>>

(* ------------------------------------------------------------------------ *)
(* Protected-span detector                                                  *)
(* ------------------------------------------------------------------------ *)

\* Faulty variant of ScanCloseParen: the inner scan runs "while j < n", so
\* tokens[j + 1] is read one past the last token
RECURSIVE ScanCloseParenToEnd(_, _, _)
ScanCloseParenToEnd(tokens, tag_name, j) ==
  LET n == Len(tokens) IN
  IF ~(j < n) THEN [idx |-> -1, raised |-> FALSE]
  ELSE IF ~InRange(tokens, j) THEN [idx |-> -1, raised |-> TRUE]
  ELSE LET t == Nth(tokens, j) IN
       IF t.is_tag THEN ScanCloseParenToEnd(tokens, tag_name, j + 1)
       ELSE IF t.text = <<")">>
       THEN IF ~InRange(tokens, j + 1) THEN [idx |-> -1, raised |-> TRUE]
            ELSE LET c == Nth(tokens, j + 1) IN
                 IF c.is_tag /\ parse_close_tag_name(c.text) = tag_name
                 THEN [idx |-> j, raised |-> FALSE]
                 ELSE ScanCloseParenToEnd(tokens, tag_name, j + 1)
       ELSE ScanCloseParenToEnd(tokens, tag_name, j + 1)

\* The inner scan "while j < n - 1" from j on: the index of the first ")"
\* character token that is directly followed by a closing tag named tag_name,
\* or -1.  raised records an IndexError of a tokens[...] subscript.
RECURSIVE ScanCloseParen(_, _, _)
ScanCloseParen(tokens, tag_name, j) ==
  LET n == Len(tokens) IN
  IF ~(j < n - 1) THEN [idx |-> -1, raised |-> FALSE]
  ELSE IF ~InRange(tokens, j) THEN [idx |-> -1, raised |-> TRUE]
  ELSE LET t == Nth(tokens, j) IN
       IF t.is_tag THEN ScanCloseParen(tokens, tag_name, j + 1)
       ELSE IF t.text = <<")">>
       THEN IF ~InRange(tokens, j + 1) THEN [idx |-> -1, raised |-> TRUE]
            ELSE LET c == Nth(tokens, j + 1) IN
                 IF c.is_tag /\ parse_close_tag_name(c.text) = tag_name
                 THEN [idx |-> j, raised |-> FALSE]
                 ELSE ScanCloseParen(tokens, tag_name, j + 1)
       ELSE ScanCloseParen(tokens, tag_name, j + 1)

\* Faulty variant of ProtectedRange: range(i + 1, close_paren_idx), which
\* leaves the ")" unprotected
ProtectedRangeOpen(i, close_paren_idx) == (i + 1)..(close_paren_idx - 1)

\* "for k in range(i + 1, close_paren_idx + 1): protected.add(k)": the "(",
\* everything up to the matching ")" and that ")" itself
ProtectedRange(i, close_paren_idx) == (i + 1)..close_paren_idx

\* Faulty variant of ScanProtected: after a construct is marked the scan
\* goes on with "i += 1", at the "(" of the construct, and not after its
\* closing tag
RECURSIVE ScanProtectedRescan(_, _, _)
ScanProtectedRescan(tokens, i, protected) ==
  LET n == Len(tokens) IN
  IF ~(i < n - 3) THEN [protected |-> protected, raised |-> FALSE]
  ELSE IF ~InRange(tokens, i) THEN [protected |-> protected, raised |-> TRUE]
  ELSE LET t == Nth(tokens, i)
           tag_name == parse_open_tag_name(t.text)
       IN
       IF ~t.is_tag \/ StartsWith(t.text, <<"[", "/">>)
       THEN ScanProtectedRescan(tokens, i + 1, protected)
       ELSE IF tag_name = <<>>
       THEN ScanProtectedRescan(tokens, i + 1, protected)
       ELSE IF ~InRange(tokens, i + 1)
       THEN [protected |-> protected, raised |-> TRUE]
       ELSE IF Nth(tokens, i + 1).is_tag \/ Nth(tokens, i + 1).text # <<"(">>
       THEN ScanProtectedRescan(tokens, i + 1, protected)
       ELSE LET close == ScanCloseParen(tokens, tag_name, i + 2) IN
            IF close.raised THEN [protected |-> protected, raised |-> TRUE]
            ELSE IF close.idx # -1
            THEN ScanProtectedRescan(tokens, i + 1,
                                     protected \cup ProtectedRange(i, close.idx))
            ELSE ScanProtectedRescan(tokens, i + 1, protected)

\* Faulty variant of ScanProtected: the outer scan runs "while i < n - 4"
RECURSIVE ScanProtectedShort(_, _, _)
ScanProtectedShort(tokens, i, protected) ==
  LET n == Len(tokens) IN
  IF ~(i < n - 4) THEN [protected |-> protected, raised |-> FALSE]
  ELSE IF ~InRange(tokens, i) THEN [protected |-> protected, raised |-> TRUE]
  ELSE LET t == Nth(tokens, i)
           tag_name == parse_open_tag_name(t.text)
       IN
       IF ~t.is_tag \/ StartsWith(t.text, <<"[", "/">>)
       THEN ScanProtectedShort(tokens, i + 1, protected)
       ELSE IF tag_name = <<>>
       THEN ScanProtectedShort(tokens, i + 1, protected)
       ELSE IF ~InRange(tokens, i + 1)
       THEN [protected |-> protected, raised |-> TRUE]
       ELSE IF Nth(tokens, i + 1).is_tag \/ Nth(tokens, i + 1).text # <<"(">>
       THEN ScanProtectedShort(tokens, i + 1, protected)
       ELSE LET close == ScanCloseParen(tokens, tag_name, i + 2) IN
            IF close.raised THEN [protected |-> protected, raised |-> TRUE]
            ELSE IF close.idx # -1
            THEN ScanProtectedShort(tokens, close.idx + 2,
                                    protected \cup ProtectedRange(i, close.idx))
            ELSE ScanProtectedShort(tokens, i + 1, protected)

\* The outer scan "while i < n - 3" from i on, with the set collected so far
RECURSIVE ScanProtected(_, _, _)
ScanProtected(tokens, i, protected) ==
  LET n == Len(tokens) IN
  IF ~(i < n - 3) THEN [protected |-> protected, raised |-> FALSE]
  ELSE IF ~InRange(tokens, i) THEN [protected |-> protected, raised |-> TRUE]
  ELSE LET t == Nth(tokens, i)
           tag_name == parse_open_tag_name(t.text)
       IN
       IF ~t.is_tag \/ StartsWith(t.text, <<"[", "/">>)
       THEN ScanProtected(tokens, i + 1, protected)
       ELSE IF tag_name = <<>>
       THEN ScanProtected(tokens, i + 1, protected)
       ELSE IF ~InRange(tokens, i + 1)
       THEN [protected |-> protected, raised |-> TRUE]
       ELSE IF Nth(tokens, i + 1).is_tag \/ Nth(tokens, i + 1).text # <<"(">>
       THEN ScanProtected(tokens, i + 1, protected)
       ELSE LET close == ScanCloseParen(tokens, tag_name, i + 2) IN
            IF close.raised THEN [protected |-> protected, raised |-> TRUE]
            ELSE IF close.idx # -1
            THEN ScanProtected(tokens, close.idx + 2,
                               protected \cup ProtectedRange(i, close.idx))
            ELSE ScanProtected(tokens, i + 1, protected)

\* [protected |-> the returned set, raised |-> whether the call raised]
find_protected_indices(tokens) == ScanProtected(tokens, 0, {})

\* [i for i, (_, is_tag) in enumerate(tokens) if not is_tag]
RECURSIVE VisibleFrom(_, _)
VisibleFrom(tokens, i) ==
  IF i >= Len(tokens) THEN <<>>
  ELSE (IF Nth(tokens, i).is_tag THEN <<>> ELSE <<i>>)
         \o VisibleFrom(tokens, i + 1)

visible_token_indices(tokens) == VisibleFrom(tokens, 0)

(* ------------------------------------------------------------------------ *)
(* Split chooser                                                            *)
(* ------------------------------------------------------------------------ *)

\* end_vis + 8: how far past the target boundary the window reaches
WINDOW_EXTRA == 8

\* best_score = 10**9, local_score = 10**9
INITIAL_SCORE == 1000000000

\* A score dist + bonus is kept as [dist, frac] with the bonus in hundredths
\* (-25, -20 or 0); as |bonus| < 1, "<" on scores is the lexicographic order.
ScoreLess(a, b) ==
  \/ a.dist < b.dist
  \/ a.dist = b.dist /\ a.frac < b.frac

\* end_vis = min(len(vis_indices), start_vis + max_len)
EndVis(vis_indices, start_vis, max_len) ==
  Min(Len(vis_indices), start_vis + max_len)

\* Faulty variant of WindowEnd: window_end = len(vis_indices), a window
\* that reaches to the end of the segment
WindowEndAll(vis_indices, end_vis) == Len(vis_indices)

\* Faulty variant of WindowEnd: the window reaches one position further
WindowEndWide(vis_indices, end_vis) ==
  Min(Len(vis_indices), end_vis + WINDOW_EXTRA + 1)

\* window_end = min(len(vis_indices), end_vis + 8)
WindowEnd(vis_indices, end_vis) ==
  Min(Len(vis_indices), end_vis + WINDOW_EXTRA)

\* the candidate when "score < best_score", else what was best so far
Better(best, cand) ==
  IF ScoreLess(cand.score, best.score) THEN cand ELSE best

\* Faulty variant of PunctuationScore: the bonus goes to the positions
\* after the boundary ("if vis_pos > end_vis")
PunctuationScoreRight(i, end_vis) ==
  [dist |-> Abs((i + 1) - end_vis),
   frac |-> IF (i + 1) > end_vis THEN -25 ELSE 0]

\* dist + left_bonus of a break after visible position i
PunctuationScore(i, end_vis) ==
  [dist |-> Abs((i + 1) - end_vis),
   frac |-> IF (i + 1) <= end_vis THEN -25 ELSE 0]

\* one pass of the punctuation loop, at visible position i
PunctuationStep(tokens, token_idx, protected_indices, end_vis, i, best) ==
  IF token_idx \in protected_indices THEN best
  ELSE IF \E ch \in PUNCTUATION : Nth(tokens, token_idx).text = <<ch>>
  THEN Better(best, [idx |-> token_idx,
                     score |-> PunctuationScore(i, end_vis)])
  ELSE best

\* the punctuation loop over range(i, window_end), given the best so far
RECURSIVE PunctuationScan(_, _, _, _, _, _, _)
PunctuationScan(tokens, vis_indices, protected_indices, end_vis, i, window_end, best) ==
  IF i >= window_end THEN best.idx
  ELSE PunctuationScan(tokens, vis_indices, protected_indices, end_vis,
                       i + 1, window_end,
                       PunctuationStep(tokens, Nth(vis_indices, i),
                                       protected_indices, end_vis, i, best))

\* 1) punctuation tier: best_idx after the loop over range(start_vis, window_end)
punctuation_tier(tokens, vis_indices, start_vis, protected_indices, end_vis, window_end) ==
  PunctuationScan(tokens, vis_indices, protected_indices, end_vis, start_vis,
                  window_end,
                  [idx |-> -1, score |-> [dist |-> INITIAL_SCORE, frac |-> 0]])

\* "".join(parts)
RECURSIVE Join(_)
Join(parts) ==
  IF parts = <<>> THEN <<>> ELSE Head(parts) \o Join(Tail(parts))

\* Faulty variant of WordScore: "if split_local <= target_local: score -= 0.2"
\* is missing
WordScoreNoBonus(split_local, target_local) ==
  [dist |-> Abs(split_local - target_local), frac |-> 0]

\* score of a break split_local characters into the window
WordScore(split_local, target_local) ==
  [dist |-> Abs(split_local - target_local),
   frac |-> IF split_local <= target_local THEN -20 ELSE 0]

\* the body of the "while True" loop for an occurrence of word at pos:
\* local_best_vis and local_score after it
WordStep(word, pos, local, vis_indices, start_vis, target_local, protected_indices) ==
  IF \/ start_vis + pos + Len(word) - 1 < start_vis
     \/ start_vis + pos + Len(word) - 1 >= Len(vis_indices)
  THEN local
  ELSE IF Nth(vis_indices, start_vis + pos + Len(word) - 1)
            \in protected_indices
  THEN local
  ELSE Better(local, [vis |-> start_vis + pos + Len(word) - 1,
                      score |-> WordScore(pos + Len(word), target_local)])

\* the "while True" search of one word, at the occurrence pos that
\* visible_text.find returned, given local_best_vis and local_score so far
RECURSIVE WordScan(_, _, _, _, _, _, _, _)
WordScan(visible_text, word, pos, local, vis_indices, start_vis, target_local, protected_indices) ==
  IF pos = -1 THEN local
  ELSE WordScan(visible_text, word, StrFind(visible_text, word, pos + 1),
                WordStep(word, pos, local, vis_indices, start_vis,
                         target_local, protected_indices),
                vis_indices, start_vis, target_local, protected_indices)

\* the loop over the words from the w-th on (1-based), in list order
RECURSIVE WordsScan(_, _, _, _, _, _, _, _)
WordsScan(words, w, visible_text, local, vis_indices, start_vis, target_local, protected_indices) ==
  IF w > Len(words) THEN local
  ELSE WordsScan(words, w + 1, visible_text,
                 WordScan(visible_text, words[w],
                          StrFind(visible_text, words[w], 0), local,
                          vis_indices, start_vis, target_local,
                          protected_indices),
                 vis_indices, start_vis, target_local, protected_indices)

\* visible_text: the visible characters of range(start_vis, window_end)
VisibleText(tokens, vis_indices, start_vis, window_end) ==
  Join([k \in 1..(window_end - start_vis) |->
          Nth(tokens, Nth(vis_indices, start_vis + k - 1)).text])

\* vis_indices[local_best_vis], or -1 when local_best_vis is -1
SplitOfBest(vis_indices, local) ==
  IF local.vis # -1 THEN Nth(vis_indices, local.vis) ELSE -1

\* 2) semantic-word tier, over words in the order given
semantic_word_tier(words, tokens, vis_indices, start_vis, protected_indices, end_vis, window_end) ==
  SplitOfBest(vis_indices,
    WordsScan(words, 1,
              VisibleText(tokens, vis_indices, start_vis, window_end),
              [vis |-> -1, score |-> [dist |-> INITIAL_SCORE, frac |-> 0]],
              vis_indices, start_vis, end_vis - start_vis,
              protected_indices))

\* the first index of range(hi, lo, -1) for which P holds, or -1
RECURSIVE FirstIndexDown(_, _, _)
FirstIndexDown(P(_), hi, lo) ==
  IF hi <= lo THEN -1
  ELSE IF P(hi) THEN hi
  ELSE FirstIndexDown(P, hi - 1, lo)

\* vis_indices[i], or -1 when the scan found no i
TokenAt(vis_indices, i) ==
  IF i # -1 THEN Nth(vis_indices, i) ELSE -1

\* 3) left fallback: range(end_vis - 1, start_vis, -1)
fallback_left(vis_indices, start_vis, protected_indices, end_vis) ==
  TokenAt(vis_indices,
    FirstIndexDown(LAMBDA k : Nth(vis_indices, k) \notin protected_indices,
                   end_vis - 1, start_vis))

\* Faulty variant of fallback_right: the "if token_idx in protected_indices:
\* continue" test is missing
fallback_right_any(vis_indices, protected_indices, end_vis) ==
  TokenAt(vis_indices, FirstIndex(LAMBDA k : TRUE, end_vis, Len(vis_indices)))

\* 4) right fallback: range(end_vis, len(vis_indices))
fallback_right(vis_indices, protected_indices, end_vis) ==
  TokenAt(vis_indices,
    FirstIndex(LAMBDA k : Nth(vis_indices, k) \notin protected_indices,
               end_vis, Len(vis_indices)))

\* "if idx != -1: return idx", else go on to the next tier
OrElse(idx, next_tier) == IF idx # -1 THEN idx ELSE next_tier

\* Faulty variant of ChooseIn: the semantic-word tier runs before the
\* punctuation tier
ChooseInWordFirst(tokens, vis_indices, start_vis, protected_indices, end_vis, window_end) ==
  IF end_vis >= Len(vis_indices) THEN -1
  ELSE OrElse(semantic_word_tier(PRIORITY_SPLIT_WORDS, tokens, vis_indices,
                                 start_vis, protected_indices, end_vis,
                                 window_end),
       OrElse(punctuation_tier(tokens, vis_indices, start_vis,
                               protected_indices, end_vis, window_end),
       OrElse(fallback_left(vis_indices, start_vis, protected_indices,
                            end_vis),
              fallback_right(vis_indices, protected_indices, end_vis))))

\* choose_split_token once end_vis and window_end are computed
ChooseIn(tokens, vis_indices, start_vis, protected_indices, end_vis, window_end) ==
  IF end_vis >= Len(vis_indices) THEN -1
  ELSE OrElse(punctuation_tier(tokens, vis_indices, start_vis,
                               protected_indices, end_vis, window_end),
       OrElse(semantic_word_tier(PRIORITY_SPLIT_WORDS, tokens, vis_indices,
                                 start_vis, protected_indices, end_vis,
                                 window_end),
       OrElse(fallback_left(vis_indices, start_vis, protected_indices,
                            end_vis),
              fallback_right(vis_indices, protected_indices, end_vis))))

\* the token index after which to break, or -1
choose_split_token(tokens, vis_indices, start_vis, max_len, protected_indices) ==
  ChooseIn(tokens, vis_indices, start_vis, protected_indices,
           EndVis(vis_indices, start_vis, max_len),
           WindowEnd(vis_indices, EndVis(vis_indices, start_vis, max_len)))

(* ------------------------------------------------------------------------ *)
(* Line assembler                                                           *)
(* ------------------------------------------------------------------------ *)

\* while start_vis + max_len < len(vis_indices)
LoopCond(vis_indices, start_vis, max_len) ==
  start_vis + max_len < Len(vis_indices)

\* i + 1 for the i the search loop stopped at, -1 when it found none
OnePast(i) == IF i = -1 THEN -1 ELSE i + 1

\* next_start_vis: one past the visible position of split_token_idx, or -1
NextStartVis(vis_indices, split_token_idx) ==
  OnePast(FirstIndex(LAMBDA i : Nth(vis_indices, i) = split_token_idx,
                     0, Len(vis_indices)))

\* Faulty variant of AfterChoice: "if split_token_idx == -1: break" is
\* missing, so -1 is recorded as a break position
AfterChoiceNoStop(ins, start, split_token_idx, next_start_vis) ==
  IF next_start_vis <= start
  THEN [insert_after |-> ins \cup {split_token_idx}, start_vis |-> start,
        ended |-> TRUE]
  ELSE [insert_after |-> ins \cup {split_token_idx},
        start_vis |-> next_start_vis, ended |-> FALSE]

\* Faulty variant of AfterChoice: "start_vis = next_start_vis" is missing
AfterChoiceNoAdvance(ins, start, split_token_idx, next_start_vis) ==
  IF split_token_idx = -1
  THEN [insert_after |-> ins, start_vis |-> start, ended |-> TRUE]
  ELSE IF next_start_vis <= start
  THEN [insert_after |-> ins \cup {split_token_idx}, start_vis |-> start,
        ended |-> TRUE]
  ELSE [insert_after |-> ins \cup {split_token_idx}, start_vis |-> start,
        ended |-> FALSE]

\* the rest of the loop body once next_start_vis is known
AfterChoice(ins, start, split_token_idx, next_start_vis) ==
  IF split_token_idx = -1
  THEN [insert_after |-> ins, start_vis |-> start, ended |-> TRUE]
  ELSE IF next_start_vis <= start
  THEN [insert_after |-> ins \cup {split_token_idx}, start_vis |-> start,
        ended |-> TRUE]
  ELSE [insert_after |-> ins \cup {split_token_idx},
        start_vis |-> next_start_vis, ended |-> FALSE]

\* the loop body once the chooser has answered
AfterSplit(vis, ins, start, split_token_idx) ==
  AfterChoice(ins, start, split_token_idx,
              NextStartVis(vis, split_token_idx))

\* One pass through the body of the while loop of wrap_segment.  ended tells
\* that the pass left the loop through a break.
LoopBody(toks, vis, protected_indices, L, ins, start) ==
  AfterSplit(vis, ins, start,
             choose_split_token(toks, vis, start, L, protected_indices))

\* insert_after when the loop is left after a pass that gave b
RECURSIVE RunLoop(_, _, _, _, _, _)
LoopOn(toks, vis, protected_indices, L, b) ==
  IF b.ended THEN b.insert_after
  ELSE RunLoop(toks, vis, protected_indices, L, b.insert_after, b.start_vis)

\* insert_after when the while loop is left
RunLoop(toks, vis, protected_indices, L, ins, start) ==
  IF ~LoopCond(vis, start, L) THEN ins
  ELSE LoopOn(toks, vis, protected_indices, L,
              LoopBody(toks, vis, protected_indices, L, ins, start))

\* the text of every token in order, with "\n" after those in ins
RECURSIVE EmitFrom(_, _, _)
EmitFrom(toks, ins, idx) ==
  IF idx >= Len(toks) THEN <<>>
  ELSE Nth(toks, idx).text
         \o (IF idx \in ins THEN <<"\n">> ELSE <<>>)
         \o EmitFrom(toks, ins, idx + 1)

\* lines 234-243: the segment itself when nothing was inserted
Assembled(segment, toks, ins) ==
  IF ins = {} THEN segment ELSE EmitFrom(toks, ins, 0)

\* wrap_segment once tokens, protected and vis_indices are computed
WrapTokens(segment, L, toks, prot, vis) ==
  IF segment = <<>> THEN [text |-> segment, raised |-> FALSE]
  ELSE IF prot.raised THEN [text |-> <<>>, raised |-> TRUE]
  ELSE IF Len(vis) <= L THEN [text |-> segment, raised |-> FALSE]
  ELSE [text |-> Assembled(segment, toks,
                           RunLoop(toks, vis, prot.protected, L, {}, 0)),
        raised |-> FALSE]

\* wrap_segment once tokens is computed
WrapTokenized(segment, L, toks) ==
  WrapTokens(segment, L, toks, find_protected_indices(toks),
             visible_token_indices(toks))

\* [text |-> the returned string, raised |-> whether the call raised]
wrap_segment(segment, L) ==
  WrapTokenized(segment, L, tokenize_preserving_tags(segment))

\* text.split("\n")
RECURSIVE SplitLines(_)
SplitAt(txt, k) ==
  IF k = -1 THEN <<txt>>
  ELSE <<Slice(txt, 0, k)>> \o SplitLines(Slice(txt, k + 1, Len(txt)))

\* Faulty variant of SplitLines: str.splitlines(), which gives no empty
\* last segment for a text that ends in "\n"
RECURSIVE SplitLinesDrop(_)
SplitLinesDrop(txt) ==
  LET k == FirstIndex(LAMBDA i : Nth(txt, i) = "\n", 0, Len(txt)) IN
  IF k = -1 THEN (IF txt = <<>> THEN <<>> ELSE <<txt>>)
  ELSE <<Slice(txt, 0, k)>> \o SplitLinesDrop(Slice(txt, k + 1, Len(txt)))

\* text.split("\n")
SplitLines(txt) ==
  SplitAt(txt, FirstIndex(LAMBDA i : Nth(txt, i) = "\n", 0, Len(txt)))

\* Faulty variant of JoinLines: "".join(parts), which drops the newlines
\* between the segments
RECURSIVE JoinLinesNoSep(_)
JoinLinesNoSep(lines) ==
  IF Len(lines) = 0 THEN <<>>
  ELSE lines[1] \o JoinLinesNoSep(Tail(lines))

\* "\n".join(parts)
RECURSIVE JoinLines(_)
JoinLines(lines) ==
  IF Len(lines) = 0 THEN <<>>
  ELSE IF Len(lines) = 1 THEN lines[1]
  ELSE lines[1] \o <<"\n">> \o JoinLines(Tail(lines))

\* lines 253-254 for the results rs of the wrap_segment calls
Joined(txt, rs) ==
  IF \E k \in 1..Len(rs) : rs[k].raised
  THEN [wrapped |-> <<>>, changed |-> FALSE, raised |-> TRUE]
  ELSE [wrapped |-> JoinLines([k \in 1..Len(rs) |-> rs[k].text]),
        changed |-> JoinLines([k \in 1..Len(rs) |-> rs[k].text]) # txt,
        raised |-> FALSE]

\* lines 251-252 for the segments ps
WrapParts(txt, L, ps) ==
  Joined(txt, [k \in 1..Len(ps) |-> wrap_segment(ps[k], L)])

\* [wrapped, changed] as returned, raised when a wrap_segment call raised
wrap_zh_desc_text(txt, L) ==
  IF txt = <<>> THEN [wrapped |-> txt, changed |-> FALSE, raised |-> FALSE]
  ELSE WrapParts(txt, L, SplitLines(txt))

(* ------------------------------------------------------------------------ *)
(* The calls that are checked                                               *)
(* ------------------------------------------------------------------------ *)

\* the longest text of LexTexts
MaxChars == 4

\* the most pieces in a text of PieceTexts
MaxPieces == 3

\* the longest run of plain characters in an argument of ConstructTexts
MaxRun == 8

\* the largest max_len tried on LexTexts, PieceTexts and ConstructTexts
MaxL == 2

\* --max-len default
DEFAULT_MAX_LEN == 14

\* brackets, braces, a punctuation mark, a plain character and the newline
LexChars == {"[", "]", "{", "}", ",", "a", "\n"}

\* every text of at most MaxChars characters of LexChars
LexTexts == UNION {[1..n -> LexChars] : n \in 0..MaxChars}

\* whole tags and placeholders, overlapping ones, and single characters
Pieces ==
  {<<"[", "b", "]">>, <<"[", "/", "b", "]">>, <<"{", "p", "}">>,
   <<"[", "{", "]">>, <<"{", "[", "}">>, <<"]">>, <<"}">>,
   <<",">>, <<"a">>, <<"\n">>}

\* every concatenation of at most MaxPieces pieces
PieceTexts ==
  UNION {{Join(f) : f \in [1..n -> Pieces]} : n \in 0..MaxPieces}

\* n times the plain character
Run(n) == [k \in 1..n |-> "a"]

\* Texts around one parenthesized tag argument, well-formed or not:
\* before, opening tag with "(", argument, ")" with closing tag, after
ConstructTexts ==
  LET Before == {<<>>, <<"a">>, <<",">>}
      Opening == {<<"[", "x", "]", "(">>, <<"[", "x", ":", "a", "]", "(">>,
                  <<"[", "x", "/", "y", "]", "(">>, <<"[", "x", "]">>,
                  <<"(">>}
      Argument == {Run(n) : n \in {0, 1, 2, MaxRun}}
                    \cup {<<"a", ",", "a">>,
                          <<"a", ")", "[", "/", "x", "]", ",", "a">>,
                          <<"[", "y", "]", "(", "a", ")", "[", "/", "x", "]",
                            ",", "a">>}
      Closing == {<<")", "[", "/", "x", "]">>, <<")", "[", "/", "y", "]">>,
                  <<")", "[", "/", "x", "/", "y", "]">>, <<")">>,
                  <<"[", "/", "x", "]">>, <<>>}
      After == {<<>>, <<"a">>, <<",", "a">>}
  IN {b \o o \o g \o c \o a :
        b \in Before, o \in Opening, g \in Argument, c \in Closing,
        a \in After}

\* Texts around priority split words: before, the word or words (plain,
\* inside a parenthesized tag argument, or cut in two by a tag), after
WordTexts ==
  LET Before == {<<>>, <<"a">>, <<"a", "a">>}
      Words == {<<"U+5E76", "U+4E14">>, <<"U+7684">>,
                <<"U+7684", "U+5E76", "U+4E14">>,
                <<"U+5E76", "U+4E14", "a", "U+7684">>,
                <<"[", "x", "]", "(", "U+5E76", "U+4E14", ")",
                  "[", "/", "x", "]">>,
                <<"U+5E76", "[", "b", "]", "U+4E14">>}
      After == {<<>>, <<"a">>, Run(3), <<",", "a">>}
  IN {b \o w \o a : b \in Before, w \in Words, a \in After}

\* "玩家受到了伤害，并且失去一个护甲层数。"
ExampleSentence ==
  <<"U+73A9", "U+5BB6", "U+53D7", "U+5230", "U+4E86", "U+4F24", "U+5BB3",
    "U+FF0C", "U+5E76", "U+4E14", "U+5931", "U+53BB", "U+4E00", "U+4E2A",
    "U+62A4", "U+7532", "U+5C42", "U+6570", "U+3002">>

\* "[m:happy]你好，世界[/m]"
ExampleTagged ==
  <<"[", "m", ":", "h", "a", "p", "p", "y", "]",
    "U+4F60", "U+597D", "U+FF0C", "U+4E16", "U+754C",
    "[", "/", "m", "]">>

\* a call on a generated text with a small max_len, or one of the examples
(* ------------------------------------------------------------------------ *)
(* One call wrap_zh_desc_text(text, max_len), step by step                  *)
(* ------------------------------------------------------------------------ *)

VARIABLES
  text,           \* the argument text
  max_len,        \* the argument max_len
  pc,             \* "call", "segment", "loop", "assemble", "done", "raised"
  parts,          \* text.split("\n")
  wrapped_parts,  \* the results of the wrap_segment calls made so far
  tokens,         \* wrap_segment: tokens
  protected,      \* wrap_segment: protected
  vis_indices,    \* wrap_segment: vis_indices
  insert_after,   \* wrap_segment: insert_after
  start_vis,      \* wrap_segment: start_vis
  wrapped,        \* the returned string
  changed,        \* the returned flag
  in_file,        \* process_file: the input file, header and rows
  rows,           \* process_file: rows
  out_file,       \* process_file: what was written to the output file
  rows_changed,   \* process_file: rows_changed
  wraps_added,    \* process_file: wraps_added
  file_pc,        \* process_file: "read", "rows", "return", "raised"
  file_data,         \* translate main: file_data
  translated_parts,  \* translate main: translated_parts
  translate_file,    \* translate main: what translations.json holds
  valid_data,        \* translate main: valid_data
  start,             \* translate main: start
  end,               \* translate main: end
  chunk,             \* translate main: chunk
  added_count,       \* translate main: added_count
  merged,            \* translate main: the items of translated merged so far
  translate_pc,      \* translate main: "load", "chunk", "merge", "done",
                     \* "raised"
  zh_text,           \* fix_zh_text: the argument zh_text
  fixed,             \* fix_zh_text: the returned text
  fix_count,         \* fix_zh_text: the returned count
  issues,            \* analyze_zh_text: the issue types returned, in order
  fix_pc             \* "call", "fix", "analyze", "done"

vars == <<text, max_len, pc, parts, wrapped_parts, tokens, protected,
          vis_indices, insert_after, start_vis, wrapped, changed,
          in_file, rows, out_file, rows_changed, wraps_added, file_pc,
          file_data, translated_parts, translate_file, valid_data, start,
          end, chunk, added_count, merged, translate_pc,
          zh_text, fixed, fix_count, issues, fix_pc>>

\* the variables of process_file
file == <<in_file, rows, out_file, rows_changed, wraps_added, file_pc>>

\* the variables of fix_zh_text and analyze_zh_text
fixing == <<zh_text, fixed, fix_count, issues, fix_pc>>

\* the variables of main in translate.py
translation == <<file_data, translated_parts, translate_file, valid_data,
                 start, end, chunk, added_count, merged, translate_pc>>

locals == <<tokens, protected, vis_indices, insert_after, start_vis>>

\* before the call: no argument is bound and nothing is computed
Init ==
  /\ pc = "call"
  /\ text = <<>>
  /\ max_len = 1
  /\ parts = <<>>
  /\ wrapped_parts = <<>>
  /\ tokens = <<>>
  /\ protected = {}
  /\ vis_indices = <<>>
  /\ insert_after = {}
  /\ start_vis = 0
  /\ wrapped = <<>>
  /\ changed = FALSE
  /\ file_pc = "read"
  /\ in_file = [fieldnames |-> <<>>, rows |-> <<>>]
  /\ rows = <<>>
  /\ out_file = [header |-> <<>>, rows |-> <<>>]
  /\ rows_changed = 0
  /\ wraps_added = 0
  /\ translate_pc = "load"
  /\ file_data = <<>>
  /\ translated_parts = <<>>
  /\ translate_file = <<>>
  /\ valid_data = <<>>
  /\ start = 0
  /\ end = 0
  /\ chunk = <<>>
  /\ added_count = 0
  /\ merged = 0
  /\ fix_pc = "call"
  /\ zh_text = <<>>
  /\ fixed = <<>>
  /\ fix_count = 0
  /\ issues = <<>>

ResetLocals ==
  /\ tokens' = <<>>
  /\ protected' = {}
  /\ vis_indices' = <<>>
  /\ insert_after' = {}
  /\ start_vis' = 0

\* the segment the next wrap_segment call gets
Segment == parts[Len(wrapped_parts) + 1]

\* wrap_zh_desc_text(t, L), lines 246-251: the call with its arguments, up
\* to the split into segments
CallWith(t, L) ==
  /\ pc = "call"
  /\ text' = t
  /\ max_len' = L
  /\ IF t = <<>>
     THEN /\ wrapped' = t
          /\ changed' = FALSE
          /\ pc' = "done"
          /\ parts' = parts
     ELSE /\ parts' = SplitLines(t)
          /\ pc' = "segment"
          /\ UNCHANGED <<wrapped, changed>>
  /\ UNCHANGED <<wrapped_parts, locals, file, translation, fixing>>

\* the call, on any of the inputs that are checked
Call ==
  /\ pc = "call"
  /\ \/ \E t \in LexTexts : \E L \in 1..MaxL : CallWith(t, L)
     \/ \E t \in PieceTexts : \E L \in 1..MaxL : CallWith(t, L)
     \/ \E t \in ConstructTexts : \E L \in 1..MaxL : CallWith(t, L)
     \/ \E t \in WordTexts : \E L \in 1..MaxL : CallWith(t, L)
     \/ CallWith(ExampleSentence, DEFAULT_MAX_LEN)
     \/ CallWith(ExampleTagged, 3)

\* wrap_segment returns segment unchanged (lines 205 and 212)
ReturnSegment ==
  /\ wrapped_parts' = Append(wrapped_parts, Segment)
  /\ UNCHANGED <<pc, locals>>

\* lines 204-215 once tokens, protected and vis_indices are computed
EnterSegment(toks, prot, vis) ==
  IF Segment = <<>> THEN ReturnSegment
  ELSE IF prot.raised
  THEN /\ pc' = "raised"
       /\ UNCHANGED <<wrapped_parts, locals>>
  ELSE IF Len(vis) <= max_len THEN ReturnSegment
  ELSE /\ tokens' = toks
       /\ protected' = prot.protected
       /\ vis_indices' = vis
       /\ insert_after' = {}
       /\ start_vis' = 0
       /\ pc' = IF LoopCond(vis, 0, max_len) THEN "loop" ELSE "assemble"
       /\ UNCHANGED wrapped_parts

\* lines 204-215 once tokens is computed
EnterTokenized(toks) ==
  EnterSegment(toks, find_protected_indices(toks),
               visible_token_indices(toks))

\* wrap_segment, lines 204-215: up to the first test of the while loop
BeginSegment ==
  /\ pc = "segment"
  /\ Len(wrapped_parts) < Len(parts)
  /\ EnterTokenized(tokenize_preserving_tags(Segment))
  /\ UNCHANGED <<text, max_len, parts, wrapped, changed, file, translation, fixing>>

\* the assignments of one pass that gave b, and the next test of the loop
LoopTo(b) ==
  /\ insert_after' = b.insert_after
  /\ start_vis' = b.start_vis
  /\ pc' = IF ~b.ended /\ LoopCond(vis_indices, b.start_vis, max_len)
           THEN "loop" ELSE "assemble"

\* wrap_segment, lines 217-232: one pass of the while loop and its next test
LoopIter ==
  /\ pc = "loop"
  /\ LoopTo(LoopBody(tokens, vis_indices, protected, max_len, insert_after,
                     start_vis))
  /\ UNCHANGED <<text, max_len, parts, wrapped_parts, tokens, protected,
                 vis_indices, wrapped, changed, file, translation, fixing>>

\* wrap_segment, lines 234-243: build and return the string
Assemble ==
  /\ pc = "assemble"
  /\ wrapped_parts' =
       Append(wrapped_parts, Assembled(Segment, tokens, insert_after))
  /\ pc' = "segment"
  /\ ResetLocals
  /\ UNCHANGED <<text, max_len, parts, wrapped, changed, file, translation, fixing>>

\* wrap_zh_desc_text, lines 253-254
JoinParts ==
  /\ pc = "segment"
  /\ Len(wrapped_parts) = Len(parts)
  /\ wrapped' = JoinLines(wrapped_parts)
  /\ changed' = (JoinLines(wrapped_parts) # text)
  /\ pc' = "done"
  /\ UNCHANGED <<text, max_len, parts, wrapped_parts, locals, file, translation, fixing>>

\* a step of the call that is running
Step == BeginSegment \/ LoopIter \/ Assemble \/ JoinParts

Next == Call \/ Step

Spec == Init /\ [][Next]_vars

TypeOK == pc \in {"call", "segment", "loop", "assemble", "done", "raised"}

(* ------------------------------------------------------------------------ *)
(* process_file(input_path, output_path, max_len), row by row               *)
(* ------------------------------------------------------------------------ *)

\* the value csv.DictReader gives a field that a short row lacks
None == <<"None">>

\* the characters str.strip() removes
Whitespace == {" ", "\t", "\n", "\r"}

RECURSIVE LStrip(_)
LStrip(s) ==
  IF s # <<>> /\ Head(s) \in Whitespace THEN LStrip(Tail(s)) ELSE s

RECURSIVE RStrip(_)
RStrip(s) ==
  IF s # <<>> /\ s[Len(s)] \in Whitespace
  THEN RStrip(SubSeq(s, 1, Len(s) - 1))
  ELSE s

\* s.strip()
Strip(s) == RStrip(LStrip(s))

Lowercase ==
  <<"a", "b", "c", "d", "e", "f", "g", "h", "i", "j", "k", "l", "m",
    "n", "o", "p", "q", "r", "s", "t", "u", "v", "w", "x", "y", "z">>

Uppercase ==
  <<"A", "B", "C", "D", "E", "F", "G", "H", "I", "J", "K", "L", "M",
    "N", "O", "P", "Q", "R", "S", "T", "U", "V", "W", "X", "Y", "Z">>

\* ch.upper() for the ASCII letters; any other character of the model's
\* alphabet has no upper-case form and stays
UpperChar(ch) ==
  IF \E k \in 1..Len(Lowercase) : Lowercase[k] = ch
  THEN Uppercase[CHOOSE k \in 1..Len(Lowercase) : Lowercase[k] = ch]
  ELSE ch

\* s.upper()
Upper(s) == [k \in 1..Len(s) |-> UpperChar(s[k])]

\* word in s
Contains(s, word) == StrFind(s, word, 0) # -1

\* s.count("\n")
CountNewlines(s) == Cardinality({k \in 1..Len(s) : s[k] = "\n"})

\* (row.get("KEY") or "").strip()
StrippedKey(row) ==
  Strip(IF "KEY" \in DOMAIN row /\ row["KEY"] # None
        THEN row["KEY"] ELSE <<>>)

\* Faulty variant of should_process_row: "if not key: return False", the
\* test for a leading "//" is missing
should_process_row_comment(row) ==
  IF StrippedKey(row) = <<>>
  THEN FALSE
  ELSE Contains(Upper(StrippedKey(row)), <<"D", "E", "S", "C">>)

\* lines 257-261
should_process_row(row) ==
  IF StrippedKey(row) = <<>> \/ StartsWith(StrippedKey(row), <<"/", "/">>)
  THEN FALSE
  ELSE Contains(Upper(StrippedKey(row)), <<"D", "E", "S", "C">>)

\* line 279: the row has a "zh" value and is selected
Wraps(row) ==
  "zh" \in DOMAIN row /\ row["zh"] # None /\ should_process_row(row)

\* lines 280-285 for a row of line 279: the row after "row["zh"] = wrapped"
\* when changed, and what is added to rows_changed and wraps_added
Rewrapped(row, r) ==
  IF r.changed
  THEN [row |-> [row EXCEPT !["zh"] = r.wrapped], changed |-> 1,
        wraps |-> CountNewlines(r.wrapped) - CountNewlines(row["zh"]),
        raised |-> r.raised]
  ELSE [row |-> row, changed |-> 0, wraps |-> 0, raised |-> r.raised]

\* lines 279-285: one pass of the loop body before writer.writerow(row)
RowPass(row, L) ==
  IF Wraps(row)
  THEN Rewrapped(row, wrap_zh_desc_text(row["zh"], L))
  ELSE [row |-> row, changed |-> 0, wraps |-> 0, raised |-> FALSE]

\* the most rows in a file
MaxRows == 2

\* header lines: all three columns, no "zh" column, no "KEY" column, and
\* the empty file
FieldLists ==
  {<<"KEY", "en", "zh">>, <<"KEY", "en">>, <<"en", "zh">>, <<>>}

\* KEY values: "", "DESC", "desc", "//DESC", " //DESC ", "NAME"
Keys ==
  {<<>>, <<"D", "E", "S", "C">>, <<"d", "e", "s", "c">>,
   <<"/", "/", "D", "E", "S", "C">>,
   <<" ", "/", "/", "D", "E", "S", "C", " ">>, <<"N", "A", "M", "E">>}

\* zh values: missing, too short to wrap, wrapped for max_len 1 and 2
ZhValues == {None, <<"a">>, Run(3)}

\* the row with the columns of fieldnames: KEY k, zh z, and an en value that
\* would be wrapped if it were a zh value
RowOf(fieldnames, k, z) ==
  [c \in {fieldnames[i] : i \in 1..Len(fieldnames)} |->
     IF c = "KEY" THEN k ELSE IF c = "zh" THEN z ELSE Run(3)]

\* every file of at most MaxRows rows under each header line
Files ==
  UNION {{[fieldnames |-> f, rows |-> rs] :
            rs \in UNION {[1..n -> {RowOf(f, k, z) : k \in Keys,
                                                     z \in ZhValues}] :
                            n \in 0..(IF f = <<>> THEN 0 ELSE MaxRows)}} :
         f \in FieldLists}

\* the variables of the wrap_zh_desc_text call that is modelled step by step
call == <<text, pc, parts, wrapped_parts, locals, wrapped, changed>>

\* lines 265-276 on the file f: read the rows, write the header line
OpenFile(f, L) ==
  /\ in_file' = f
  /\ max_len' = L
  /\ rows' = f.rows
  /\ out_file' = [header |-> IF f.fieldnames # <<>> THEN <<f.fieldnames>>
                             ELSE <<>>,
                  rows |-> <<>>]
  /\ rows_changed' = 0
  /\ wraps_added' = 0
  /\ file_pc' = "rows"
  /\ UNCHANGED <<call, translation, fixing>>

\* the call of process_file, on any of the files that are checked
ProcessFile ==
  /\ file_pc = "read"
  /\ \E f \in Files : \E L \in 1..MaxL : OpenFile(f, L)

\* lines 278-287 with the result p of lines 279-285 for row number i
WriteRowAs(i, p) ==
  IF p.raised
  THEN /\ file_pc' = "raised"
       /\ UNCHANGED <<rows, out_file, rows_changed, wraps_added>>
  ELSE /\ rows' = [rows EXCEPT ![i] = p.row]
       /\ rows_changed' = rows_changed + p.changed
       /\ wraps_added' = wraps_added + p.wraps
       /\ out_file' = [out_file EXCEPT !.rows = Append(@, p.row)]
       /\ file_pc' = "rows"

\* lines 278-287: one pass of "for row in rows", the row wrapped where it is
\* selected and written
WriteRow ==
  /\ file_pc = "rows"
  /\ Len(out_file.rows) < Len(rows)
  /\ WriteRowAs(Len(out_file.rows) + 1,
                RowPass(rows[Len(out_file.rows) + 1], max_len))
  /\ UNCHANGED <<in_file, max_len, call, translation, fixing>>

\* line 289
Return ==
  /\ file_pc = "rows"
  /\ Len(out_file.rows) = Len(rows)
  /\ file_pc' = "return"
  /\ UNCHANGED <<in_file, rows, out_file, rows_changed, wraps_added,
                 max_len, call, translation, fixing>>

FileNext == ProcessFile \/ WriteRow \/ Return

FileSpec == Init /\ [][FileNext]_vars

(* ------------------------------------------------------------------------ *)
(* translate.py: main, the chunk loop over one file                         *)
(* ------------------------------------------------------------------------ *)

\* CHUNK_SIZE, the number of items per request: 150 in the source, scaled
\* down here; the loop depends only on its being positive
CHUNK_SIZE == 2

\* the index of the last "_" of key, or 0
LastUnderscore(key, p) ==
  IF \E q \in 1..p : key[q] = "_"
  THEN CHOOSE q \in 1..p : key[q] = "_" /\ \A r \in (q + 1)..p : key[r] # "_"
  ELSE 0

\* '_'.join(key.split('_')[:-1]): what stands before the last "_", or ""
KeyPrefix(key) ==
  IF LastUnderscore(key, Len(key)) = 0 THEN <<>>
  ELSE SubSeq(key, 1, LastUnderscore(key, Len(key)) - 1)

Digits == {"0", "1", "2", "3", "4", "5", "6", "7", "8", "9"}

\* s.rstrip('0123456789')
RECURSIVE RStripDigits(_)
RStripDigits(s) ==
  IF s # <<>> /\ s[Len(s)] \in Digits
  THEN RStripDigits(SubSeq(s, 1, Len(s) - 1))
  ELSE s

\* lines 188-198: the prefix of key2 loses its trailing digits, the prefix
\* of key1 does not
is_same_key_group(key1, key2) ==
  KeyPrefix(key1) = RStripDigits(KeyPrefix(key2))

\* line 180: 'en' in item and 'KEY' in item and item['en'].strip()
IsValidItem(item) ==
  /\ "en" \in DOMAIN item
  /\ "KEY" \in DOMAIN item
  /\ Strip(item["en"]) # <<>>

\* [x for x in data if P(x)] for the two filters of lines 180 and 182
RECURSIVE ValidData(_, _)
ValidData(data, parts_) ==
  IF data = <<>> THEN <<>>
  ELSE IF IsValidItem(Head(data)) /\ Head(data)["KEY"] \notin DOMAIN parts_
  THEN <<Head(data)>> \o ValidData(Tail(data), parts_)
  ELSE ValidData(Tail(data), parts_)

\* lines 201-202: "while end > len(valid_data): end -= 1"
RECURSIVE ClampEnd(_, _)
ClampEnd(e, n) == IF e > n THEN ClampEnd(e - 1, n) ELSE e

\* lines 203-206: end moves on while the item before it and the item at it
\* are of one key group
RECURSIVE ExtendEnd(_, _)
ExtendEnd(data, e) ==
  IF e < Len(data) /\ is_same_key_group(data[e]["KEY"], data[e + 1]["KEY"])
  THEN IF e + 1 >= Len(data) THEN e + 1 ELSE ExtendEnd(data, e + 1)
  ELSE e

\* lines 218-222: the en of the first item of the chunk with this KEY, or ""
RECURSIVE EnOf(_, _)
EnOf(items, source_key) ==
  IF items = <<>> THEN <<>>
  ELSE IF Head(items)["KEY"] = source_key THEN Head(items)["en"]
  ELSE EnOf(Tail(items), source_key)

\* translated_parts[source_key] = value
Stored(parts_, source_key, value) ==
  [k \in DOMAIN parts_ \cup {source_key} |->
     IF k = source_key THEN value ELSE parts_[k]]

\* Faulty variant of MergedParts: the test "if source_key not in
\* translated_parts" is missing
MergedPartsAlways(parts_, source_key, en, zh) ==
  Stored(parts_, source_key, [en |-> en, zh |-> zh])

\* lines 224-228: translated_parts after the item is merged
MergedParts(parts_, source_key, en, zh) ==
  IF source_key \notin DOMAIN parts_
  THEN Stored(parts_, source_key, [en |-> en, zh |-> zh])
  ELSE parts_

\* Faulty variant of NextStart: start is left where it is
NextStartStay(s, e) == s

\* line 240: start = end
NextStart(s, e) == e

\* the most items of file_data
MaxData == 3

\* the most items of one LLM response
MaxItems == 2

\* "A_N", "A_D", "A2_N", "A2_D", "B"
ItemKeys ==
  {<<"A", "_", "N">>, <<"A", "_", "D">>, <<"A", "2", "_", "N">>,
   <<"A", "2", "_", "D">>, <<"B">>}

\* the items of a file: one for each key, one with a blank en, one without
\* KEY
FileItems ==
  {[KEY |-> k, en |-> <<"e">>] : k \in ItemKeys}
    \cup {[KEY |-> <<"B">>, en |-> <<" ">>], [en |-> <<"e">>]}

\* what translations.json holds at the start: nothing, or "A_N"
StoredBefore ==
  {<<>>, Stored(<<>>, <<"A", "_", "N">>, [en |-> <<"o">>, zh |-> <<"o">>])}

\* the items an LLM response may hold: a translation for any key, asked for
\* or not, or an item without 'source_key'
ResponseItems ==
  {[source_key |-> k, zh |-> <<"z">>] : k \in ItemKeys} \cup {[zh |-> <<"z">>]}

\* lines 161-187 and the first test of line 200
LoadWith(data, parts_) ==
  /\ file_data' = data
  /\ translated_parts' = parts_
  /\ translate_file' = parts_
  /\ valid_data' = ValidData(data, parts_)
  /\ start' = 0
  /\ end' = CHUNK_SIZE
  /\ translate_pc' = IF 0 < Len(ValidData(data, parts_)) THEN "chunk"
                     ELSE "done"
  /\ UNCHANGED <<chunk, added_count, merged>>

\* main up to the while loop, on any of the files that are checked
Load ==
  /\ translate_pc = "load"
  /\ \E n \in 0..MaxData : \E data \in [1..n -> FileItems] :
       \E parts_ \in StoredBefore : LoadWith(data, parts_)
  /\ UNCHANGED <<max_len, call, file, fixing>>

\* lines 201-215: the chunk is cut and sent
BeginChunkAt(e) ==
  /\ end' = e
  /\ chunk' = SubSeq(valid_data, start + 1, e)
  /\ added_count' = 0
  /\ merged' = 0
  /\ translate_pc' = "merge"

BeginChunk ==
  /\ translate_pc = "chunk"
  /\ BeginChunkAt(ExtendEnd(valid_data, ClampEnd(end, Len(valid_data))))
  /\ UNCHANGED <<file_data, translated_parts, translate_file, valid_data,
                 start, max_len, call, file, fixing>>

\* lines 216-229 for one item of translated
MergeWith(item) ==
  IF "source_key" \notin DOMAIN item
  THEN /\ translate_pc' = "raised"
       /\ UNCHANGED <<translated_parts, added_count, merged>>
  ELSE /\ translated_parts' =
            MergedParts(translated_parts, item["source_key"],
                        EnOf(chunk, item["source_key"]), item["zh"])
       /\ added_count' =
            IF item["source_key"] \notin DOMAIN translated_parts
            THEN added_count + 1 ELSE added_count
       /\ merged' = merged + 1
       /\ translate_pc' = "merge"

\* one pass of "for item in translated", on any item the LLM may answer
MergeItem ==
  /\ translate_pc = "merge"
  /\ merged < MaxItems
  /\ \E item \in ResponseItems : MergeWith(item)
  /\ UNCHANGED <<file_data, translate_file, valid_data, start, end, chunk,
                 max_len, call, file, fixing>>

\* lines 231-241 and the next test of line 200, after the last item
EndMerge ==
  /\ translate_pc = "merge"
  /\ IF added_count = 0
     THEN /\ translate_pc' = "done"
          /\ UNCHANGED <<translate_file, start, end>>
     ELSE /\ translate_file' = translated_parts
          /\ start' = NextStart(start, end)
          /\ end' = NextStart(start, end) + CHUNK_SIZE
          /\ translate_pc' = IF NextStart(start, end) < Len(valid_data)
                             THEN "chunk" ELSE "done"
  /\ UNCHANGED <<file_data, translated_parts, valid_data, chunk,
                 added_count, merged, max_len, call, file, fixing>>

TranslateNext == Load \/ BeginChunk \/ MergeItem \/ EndMerge

TranslateSpec == Init /\ [][TranslateNext]_vars

(* ------------------------------------------------------------------------ *)
(* fix_m_and_newline_errors.py: fix_zh_text                                 *)
(* ------------------------------------------------------------------------ *)

\* ("img", "m", "s", "o", "c", "a", "pause")
TAG_WITH_ARG_NAMES ==
  << <<"i", "m", "g">>, <<"m">>, <<"s">>, <<"o">>, <<"c">>, <<"a">>,
     <<"p", "a", "u", "s", "e">> >>

\* the CJK character of the texts that are checked: "中", U+4E2D, in the
\* range 0x4E00 <= code <= 0x9FFF
CjkChars == {"U+4E2D"}

\* contains_cjk(text), lines 31-46 of the fixer and 33-48 of the checker
contains_cjk(s) == \E k \in 1..Len(s) : s[k] \in CjkChars

\* [A-Za-z0-9_]
AsciiWord ==
  {Lowercase[k] : k \in 1..Len(Lowercase)}
    \cup {Uppercase[k] : k \in 1..Len(Uppercase)} \cup Digits \cup {"_"}

\* \w of a str pattern: the ASCII word characters and the CJK characters
WordChars == AsciiWord \cup CjkChars

\* the text from index p on begins with lit
At(s, p, lit) == StartsWith(Slice(s, p, Len(s)), lit)

\* "[" name ":" stands at p for the k-th name of TAG_WITH_ARG_NAMES
NamedAt(s, p, k) ==
  At(s, p, <<"[">> \o TAG_WITH_ARG_NAMES[k] \o <<":">>)

\* the name of the tag with argument that begins at p, or "" (no name is
\* another name followed by ":", so at most one fits)
TagNameAt(s, p) ==
  IF \E k \in 1..Len(TAG_WITH_ARG_NAMES) : NamedAt(s, p, k)
  THEN TAG_WITH_ARG_NAMES[CHOOSE k \in 1..Len(TAG_WITH_ARG_NAMES) :
                            NamedAt(s, p, k)]
  ELSE <<>>

\* what a pass of pattern.sub gives: piece in place of a match or of one
\* character, n more changes, and then the rest
Emit(piece, n, rest) ==
  [text |-> piece \o rest.text, changed |-> n + rest.changed]

\* INVALID_TAG_DOTS_PATTERN at p: the end of the match, or -1
DotsMatchEnd(s, p) ==
  IF TagNameAt(s, p) # <<>>
     /\ At(s, p + Len(TagNameAt(s, p)) + 2, <<".", ".", ".", "]">>)
  THEN p + Len(TagNameAt(s, p)) + 6
  ELSE -1

\* line 57: INVALID_TAG_DOTS_PATTERN.subn("", text) from p on
RECURSIVE RemoveDots(_, _)
RemoveDots(s, p) ==
  IF p >= Len(s) THEN [text |-> <<>>, changed |-> 0]
  ELSE IF DotsMatchEnd(s, p) # -1
  THEN Emit(<<>>, 1, RemoveDots(s, DotsMatchEnd(s, p)))
  ELSE Emit(<<Nth(s, p)>>, 0, RemoveDots(s, p + 1))

\* TAG_WITH_ARG_PATTERN at p: the index of the "]" that ends the match, or
\* -1; the argument is what stands between the ":" and the next "]"
ArgClose(s, p) ==
  IF TagNameAt(s, p) = <<>> THEN -1
  ELSE NextOf(s, p + Len(TagNameAt(s, p)) + 1, {"]"})

\* lines 59-69: replace_tag for the tag named tag_name with argument inner
replace_tag(tag_name, inner) ==
  IF Strip(inner) = <<>> THEN <<>>
  ELSE IF contains_cjk(inner) THEN <<>>
  ELSE <<"[">> \o tag_name \o <<":">> \o Strip(inner) \o <<"]">>

\* lines 71-77: replace_and_count for the match from p to the "]" at q
ReplaceAndCount(s, p, q, rest) ==
  Emit(replace_tag(TagNameAt(s, p),
                   Slice(s, p + Len(TagNameAt(s, p)) + 2, q)),
       IF replace_tag(TagNameAt(s, p),
                      Slice(s, p + Len(TagNameAt(s, p)) + 2, q))
            # Slice(s, p, q + 1)
       THEN 1 ELSE 0,
       rest)

\* line 79: TAG_WITH_ARG_PATTERN.sub(replace_and_count, cleaned) from p on
RECURSIVE NormalizeTags(_, _)
NormalizeTags(s, p) ==
  IF p >= Len(s) THEN [text |-> <<>>, changed |-> 0]
  ELSE IF ArgClose(s, p) # -1
  THEN ReplaceAndCount(s, p, ArgClose(s, p),
                       NormalizeTags(s, ArgClose(s, p) + 1))
  ELSE Emit(<<Nth(s, p)>>, 0, NormalizeTags(s, p + 1))

\* lines 48-80
normalize_or_remove_invalid_tags(zh) ==
  Emit(<<>>, RemoveDots(zh, 0).changed,
       NormalizeTags(RemoveDots(zh, 0).text, 0))

\* the length of the longest run of characters of cs starting at p
RECURSIVE RunIn(_, _, _)
RunIn(s, p, cs) ==
  IF InRange(s, p) /\ Nth(s, p) \in cs THEN 1 + RunIn(s, p + 1, cs) ELSE 0

\* (img|m) at p: the name, or ""
UnwrappedName(s, p) ==
  IF At(s, p, <<"i", "m", "g">>) THEN <<"i", "m", "g">>
  ELSE IF At(s, p, <<"m">>) THEN <<"m">>
  ELSE <<>>

\* the index of the ":" after the name at p and any whitespace, or -1
ColonAfter(s, p) ==
  IF UnwrappedName(s, p) = <<>> THEN -1
  ELSE IF At(s, p + Len(UnwrappedName(s, p))
                  + RunIn(s, p + Len(UnwrappedName(s, p)), Whitespace),
             <<":">>)
  THEN p + Len(UnwrappedName(s, p))
         + RunIn(s, p + Len(UnwrappedName(s, p)), Whitespace)
  ELSE -1

\* [A-Za-z0-9_]+(?:[\s-][A-Za-z0-9_]+)* from c on, greedy: the end of the
\* match when a word run stands at c (c itself when none does)
RECURSIVE ValueEnd(_, _)
ValueEnd(s, c) ==
  IF RunIn(s, c, AsciiWord) = 0 THEN c
  ELSE IF /\ InRange(s, c + RunIn(s, c, AsciiWord))
          /\ Nth(s, c + RunIn(s, c, AsciiWord)) \in Whitespace \cup {"-"}
          /\ RunIn(s, c + RunIn(s, c, AsciiWord) + 1, AsciiWord) > 0
  THEN ValueEnd(s, c + RunIn(s, c, AsciiWord) + 1)
  ELSE c + RunIn(s, c, AsciiWord)

\* the index at which the value of the unwrapped tag at p begins
ValueStart(s, p) ==
  ColonAfter(s, p) + 1 + RunIn(s, ColonAfter(s, p) + 1, Whitespace)

\* UNWRAPPED_TAG_PATTERN at p: the end of the match, or -1.  (?<![\[:\w])
\* fails after "[", ":" and a word character.
UnwrappedEnd(s, p) ==
  IF p > 0 /\ Nth(s, p - 1) \in {"[", ":"} \cup WordChars THEN -1
  ELSE IF ColonAfter(s, p) = -1 THEN -1
  ELSE IF ValueEnd(s, ValueStart(s, p)) = ValueStart(s, p) THEN -1
  ELSE ValueEnd(s, ValueStart(s, p))

\* lines 86-96: UNWRAPPED_TAG_PATTERN.sub(replace_unwrapped, zh) from p on;
\* the value has no blank at either end and no CJK character, so every
\* match is wrapped
RECURSIVE WrapUnwrapped(_, _)
WrapUnwrapped(s, p) ==
  IF p >= Len(s) THEN [text |-> <<>>, changed |-> 0]
  ELSE IF UnwrappedEnd(s, p) # -1
  THEN Emit(<<"[">> \o UnwrappedName(s, p) \o <<":">>
              \o Slice(s, ValueStart(s, p), UnwrappedEnd(s, p)) \o <<"]">>,
            1, WrapUnwrapped(s, UnwrappedEnd(s, p)))
  ELSE Emit(<<Nth(s, p)>>, 0, WrapUnwrapped(s, p + 1))

\* lines 83-96
wrap_unwrapped_img_m_tags(zh) == WrapUnwrapped(zh, 0)

\* BRACE_BLOCK_PATTERN at p: the index of the "}" that ends the match, or -1
BlockClose(s, p) ==
  IF Nth(s, p) = "{" /\ NextOf(s, p, {"{", "}"}) # -1
     /\ Nth(s, NextOf(s, p, {"{", "}"})) = "}"
  THEN NextOf(s, p, {"{", "}"})
  ELSE -1

\* block.replace("\n", "")
RECURSIVE WithoutNewlines(_)
WithoutNewlines(s) ==
  IF s = <<>> THEN <<>>
  ELSE (IF Head(s) = "\n" THEN <<>> ELSE <<Head(s)>>)
         \o WithoutNewlines(Tail(s))

\* lines 102-111: replace_block for the block from p to the "}" at q
ReplaceBlock(s, p, q, rest) ==
  Emit(WithoutNewlines(Slice(s, p, q + 1)),
       IF WithoutNewlines(Slice(s, p, q + 1)) # Slice(s, p, q + 1)
       THEN 1 ELSE 0,
       rest)

\* line 113: BRACE_BLOCK_PATTERN.sub(replace_block, zh) from p on
RECURSIVE FixBraces(_, _)
FixBraces(s, p) ==
  IF p >= Len(s) THEN [text |-> <<>>, changed |-> 0]
  ELSE IF BlockClose(s, p) # -1
  THEN ReplaceBlock(s, p, BlockClose(s, p), FixBraces(s, BlockClose(s, p) + 1))
  ELSE Emit(<<Nth(s, p)>>, 0, FixBraces(s, p + 1))

\* lines 99-114
fix_newline_inside_braces(zh) == FixBraces(zh, 0)

\* lines 121-123: the three passes in a row
FixPasses(t1, t2, t3) ==
  [text |-> t3.text, changed |-> t1.changed + t2.changed + t3.changed]

\* the third pass, on the result of the second
ThirdPass(t1, t2) == FixPasses(t1, t2, fix_newline_inside_braces(t2.text))

\* the second pass, on the result of the first
SecondPass(t1) == ThirdPass(t1, wrap_unwrapped_img_m_tags(t1.text))

\* lines 117-124: [text |-> the fixed text, changed |-> the count]
fix_zh_text(zh) ==
  IF zh = <<>> THEN [text |-> zh, changed |-> 0]
  ELSE SecondPass(normalize_or_remove_invalid_tags(zh))

(* ------------------------------------------------------------------------ *)
(* check_m_and_newline_errors.py: analyze_zh_text                           *)
(* ------------------------------------------------------------------------ *)

\* n times the issue type
Issues(issue_type, n) == [k \in 1..n |-> issue_type]

\* the matches INVALID_M_DOTS_PATTERN.finditer(zh) yields from p on
RECURSIVE CountDots(_, _)
CountDots(zh, p) ==
  IF p >= Len(zh) THEN 0
  ELSE IF At(zh, p, <<"[", "m", ":", ".", ".", ".", "]">>)
  THEN 1 + CountDots(zh, p + 7)
  ELSE CountDots(zh, p + 1)

\* M_TAG_PATTERN at p: the index of the "]" that ends the match, or -1
MTagClose(zh, p) ==
  IF At(zh, p, <<"[", "m", ":">>) THEN NextOf(zh, p + 2, {"]"}) ELSE -1

\* the matches M_TAG_PATTERN.finditer(zh) yields from p on whose argument
\* holds a CJK character
RECURSIVE CountCjkTags(_, _)
CountCjkTags(zh, p) ==
  IF p >= Len(zh) THEN 0
  ELSE IF MTagClose(zh, p) # -1
  THEN (IF contains_cjk(Slice(zh, p + 3, MTagClose(zh, p))) THEN 1 ELSE 0)
         + CountCjkTags(zh, MTagClose(zh, p) + 1)
  ELSE CountCjkTags(zh, p + 1)

\* lines 62-75: find_unclosed_m_tag_positions gives one position when some
\* "[m:" has no "]" after it, and none otherwise
CountUnclosed(zh) ==
  IF \E p \in 0..(Len(zh) - 1) :
       At(zh, p, <<"[", "m", ":">>) /\ NextOf(zh, p + 2, {"]"}) = -1
  THEN 1 ELSE 0

\* BROKEN_VAR_NEWLINE_PATTERN at p: the index of the "}" that ends the
\* match, or -1
BrokenClose(zh, p) ==
  IF BlockClose(zh, p) # -1
     /\ \E q \in (p + 1)..(BlockClose(zh, p) - 1) : Nth(zh, q) = "\n"
  THEN BlockClose(zh, p)
  ELSE -1

\* the matches BROKEN_VAR_NEWLINE_PATTERN.finditer(zh) yields from p on
RECURSIVE CountBroken(_, _)
CountBroken(zh, p) ==
  IF p >= Len(zh) THEN 0
  ELSE IF BrokenClose(zh, p) # -1
  THEN 1 + CountBroken(zh, BrokenClose(zh, p) + 1)
  ELSE CountBroken(zh, p + 1)

\* lines 78-131: the issue types of the issues returned, in order
analyze_zh_text(zh) ==
  Issues("invalid_m_literal_dots", CountDots(zh, 0))
    \o Issues("invalid_m_contains_cjk", CountCjkTags(zh, 0))
    \o Issues("invalid_m_unclosed", CountUnclosed(zh))
    \o Issues("broken_variable_newline", CountBroken(zh, 0))

(* ------------------------------------------------------------------------ *)
(* The fixer, and the checker on the fixer's output                         *)
(* ------------------------------------------------------------------------ *)

\* the most pieces in a text of FixTexts
MaxFixPieces == 4

\* the parts of tags with argument, of placeholders and of plain text
FixPieces ==
  {<<"[", "m", ":">>, <<".", ".", ".">>, <<"]">>, <<" ">>, <<"U+4E2D">>,
   <<"{">>, <<"}">>, <<"\n">>, <<"a">>, <<"m", ":", "a">>}

\* every concatenation of at most MaxFixPieces pieces
FixTexts ==
  UNION {{Join(f) : f \in [1..n -> FixPieces]} : n \in 0..MaxFixPieces}

\* the call fix_zh_text(zh) on any of the texts that are checked
FixCall ==
  /\ fix_pc = "call"
  /\ \E zh \in FixTexts : zh_text' = zh
  /\ fix_pc' = "fix"
  /\ UNCHANGED <<fixed, fix_count, issues, max_len, call, file, translation>>

\* fix_zh_text, lines 117-124
Fix ==
  /\ fix_pc = "fix"
  /\ fixed' = fix_zh_text(zh_text).text
  /\ fix_count' = fix_zh_text(zh_text).changed
  /\ fix_pc' = "analyze"
  /\ UNCHANGED <<zh_text, issues, max_len, call, file, translation>>

\* analyze_zh_text on the fixed text, lines 78-131
Analyze ==
  /\ fix_pc = "analyze"
  /\ issues' = analyze_zh_text(fixed)
  /\ fix_pc' = "done"
  /\ UNCHANGED <<zh_text, fixed, fix_count, max_len, call, file, translation>>

FixNext == FixCall \/ Fix \/ Analyze

FixSpec == Init /\ [][FixNext]_vars

(* ------------------------------------------------------------------------ *)
(* Observations on a finished call                                          *)
(* ------------------------------------------------------------------------ *)

\* out is orig with "\n" characters added and nothing else changed
RECURSIVE OnlyBreaksAdded(_, _)
OnlyBreaksAdded(orig, out) ==
  IF out = <<>> THEN orig = <<>>
  ELSE IF orig # <<>> /\ Head(out) = Head(orig)
  THEN OnlyBreaksAdded(Tail(orig), Tail(out))
  ELSE Head(out) = "\n" /\ OnlyBreaksAdded(orig, Tail(out))

\* the number of characters of out[1..j] other than "\n"
CharsBefore(out, j) == Cardinality({i \in 1..j : out[i] # "\n"})

\* For the result out of a segment (which has no "\n" of its own): the
\* offsets b such that a break stands after the first b characters
BreakOffsets(out) ==
  {CharsBefore(out, j) : j \in {i \in 1..Len(out) : out[i] = "\n"}}

\* the segments of the call, by number
Segments == 1..Len(parts)

\* the call is finished
Done == pc = "done"

\* some token of the text is a tag or placeholder
HasTag(txt) ==
  \E k \in 1..Len(tokenize_preserving_tags(txt)) :
    tokenize_preserving_tags(txt)[k].is_tag

(* ------------------------------------------------------------------------ *)
(* C1                                                                       *)
(* ------------------------------------------------------------------------ *)

\* C1: the returned text is the input with zero or more "\n" added and
\* nothing else added, removed, reordered or altered: deleting the added
\* breaks gives the input back.
C1_OnlyBreaksInserted ==
  Done => /\ OnlyBreaksAdded(text, wrapped)
          /\ Len(wrapped_parts) = Len(parts)
          /\ \A k \in Segments :
               SelectSeq(wrapped_parts[k], LAMBDA c : c # "\n") = parts[k]

\* a finished call that inserted a break into a text with a tag
C1_Witness ==
  /\ Done
  /\ changed
  /\ Len(wrapped) > Len(text)
  /\ HasTag(text)

(* ------------------------------------------------------------------------ *)
(* C2                                                                       *)
(* ------------------------------------------------------------------------ *)

\* the offset in the input of the first character of segment k
RECURSIVE SegStart(_)
SegStart(k) == IF k = 1 THEN 0 ELSE SegStart(k - 1) + Len(parts[k - 1]) + 1

\* the offsets b of segment k such that a break was inserted after the first
\* b characters of the segment
SegBreaks(k) == BreakOffsets(wrapped_parts[k])

\* the same, as offsets in the whole input
TextBreaks == UNION {{SegStart(k) + b : b \in SegBreaks(k)} : k \in Segments}

\* txt[p..q] is lexically a bracket tag "[...]" with one or more characters
\* and no bracket inside, or a brace placeholder "{...}" with no brace inside
WellFormedSpan(txt, p, q) ==
  \/ /\ Nth(txt, p) = "[" /\ Nth(txt, q) = "]" /\ q >= p + 2
     /\ \A r \in (p + 1)..(q - 1) : Nth(txt, r) \notin {"[", "]"}
  \/ /\ Nth(txt, p) = "{" /\ Nth(txt, q) = "}" /\ q >= p + 1
     /\ \A r \in (p + 1)..(q - 1) : Nth(txt, r) \notin {"{", "}"}

\* all well-formed spans <<p, q>> of txt
WellFormedSpans(txt) ==
  {pq \in (0..(Len(txt) - 1)) \X (0..(Len(txt) - 1)) :
     WellFormedSpan(txt, pq[1], pq[2])}

\* the well-formed spans a left-to-right scan from p on takes when it skips
\* every span that starts inside a span already taken
RECURSIVE SpansFrom(_, _)
SpansFrom(txt, p) ==
  IF p >= Len(txt) THEN {}
  ELSE IF \E q \in p..(Len(txt) - 1) : WellFormedSpan(txt, p, q)
  THEN LET q == CHOOSE r \in p..(Len(txt) - 1) : WellFormedSpan(txt, p, r)
       IN {<<p, q>>} \cup SpansFrom(txt, q + 1)
  ELSE SpansFrom(txt, p + 1)

\* a break after the first b characters falls strictly between the
\* delimiters of the span pq
BreakInside(b, pq) == pq[1] < b /\ b <= pq[2]

\* C2 as stated: no inserted break falls strictly inside any well-formed
\* bracket tag or brace placeholder of the input, overlapping spans included.
C2_Original ==
  Done => \A pq \in WellFormedSpans(text) :
            \A b \in TextBreaks : ~BreakInside(b, pq)

\* C2 (amended): within each newline-delimited segment, no inserted break
\* falls strictly inside a bracket tag or brace placeholder that the
\* left-to-right non-overlapping scan of that segment recognises.
C2_NoBreakInsideRecognisedSpan ==
  Done => \A k \in Segments :
            \A pq \in SpansFrom(parts[k], 0) :
              \A b \in SegBreaks(k) : ~BreakInside(b, pq)

\* a finished call that broke a segment right before a recognised span and
\* again somewhere after it
C2_Witness ==
  /\ Done
  /\ \E k \in Segments :
       \E pq \in SpansFrom(parts[k], 0) :
         /\ pq[1] \in SegBreaks(k)
         /\ \E b \in SegBreaks(k) : b > pq[2] + 1

(* ------------------------------------------------------------------------ *)
(* C3                                                                       *)
(* ------------------------------------------------------------------------ *)

\* the tokens of segment k
SegTokens(k) == tokenize_preserving_tags(parts[k])

\* the offset in its segment of the end of token j: the number of characters
\* of tokens 0..j
RECURSIVE TokEnd(_, _)
TokEnd(toks, j) ==
  IF j < 0 THEN 0 ELSE TokEnd(toks, j - 1) + Len(Nth(toks, j).text)

\* token j is the one-character token ch
IsChar(toks, j, ch) ==
  InRange(toks, j) /\ ~Nth(toks, j).is_tag /\ Nth(toks, j).text = <<ch>>

\* the name the claim gives an opening tag "[x]" or "[x:arg]": what stands
\* between the "[" and the first ":" or the "]" (<<>> for any other token)
StatedOpenName(tag_text) ==
  IF Head(tag_text) # "[" \/ StartsWith(tag_text, <<"[", "/">>) THEN <<>>
  ELSE Slice(tag_text, 1, 1 + RunLength(tag_text, 1, {":", "]"}))

\* the name the claim gives a closing tag "[/x]" (<<>> for any other token)
StatedCloseName(tag_text) ==
  IF ~StartsWith(tag_text, <<"[", "/">>) THEN <<>>
  ELSE Slice(tag_text, 2, Len(tag_text) - 1)

\* c is the index of a ")" directly followed by the closing tag named name
ClosesAt(toks, name, c, CloseName(_)) ==
  /\ IsChar(toks, c, ")")
  /\ InRange(toks, c + 1) /\ Nth(toks, c + 1).is_tag
  /\ CloseName(Nth(toks, c + 1).text) = name

\* token i is an opening tag directly followed by "(", and c is the first
\* later ")" directly followed by the closing tag of the same name
IsConstruct(toks, i, c, OpenName(_), CloseName(_)) ==
  /\ InRange(toks, i) /\ Nth(toks, i).is_tag
  /\ OpenName(Nth(toks, i).text) # <<>>
  /\ IsChar(toks, i + 1, "(")
  /\ c >= i + 2
  /\ ClosesAt(toks, OpenName(Nth(toks, i).text), c, CloseName)
  /\ \A j \in (i + 2)..(c - 1) :
       ~ClosesAt(toks, OpenName(Nth(toks, i).text), j, CloseName)

\* all pairs <<i, c>> of toks that form a construct as the claim words it
StatedConstructs(toks) ==
  {ic \in (0..(Len(toks) - 1)) \X (0..(Len(toks) - 1)) :
     IsConstruct(toks, ic[1], ic[2], StatedOpenName, StatedCloseName)}

\* the constructs a left-to-right scan from i on takes: the name is parsed
\* as the name patterns parse it, and the scan goes on after the closing tag
\* of each construct it takes
RECURSIVE ConstructsFrom(_, _)
ConstructsFrom(toks, i) ==
  IF i >= Len(toks) THEN {}
  ELSE IF \E c \in i..(Len(toks) - 1) :
            IsConstruct(toks, i, c, parse_open_tag_name, parse_close_tag_name)
  THEN LET c == CHOOSE r \in i..(Len(toks) - 1) :
                  IsConstruct(toks, i, r, parse_open_tag_name,
                              parse_close_tag_name)
       IN {<<i, c>>} \cup ConstructsFrom(toks, c + 2)
  ELSE ConstructsFrom(toks, i + 1)

\* no break of segment k stands after any of the tokens ic[1]..ic[2]: none
\* between the opening tag and the "(", from the "(" through the ")", or
\* between the ")" and the closing tag
Unbroken(k, toks, ic) ==
  \A b \in SegBreaks(k) : ~(TokEnd(toks, ic[1]) <= b /\ b <= TokEnd(toks, ic[2]))

\* C3 as stated: for every opening tag "[x]" or "[x:arg]" directly followed
\* by "(" and a later ")" directly followed by "[/x]", no break is inserted
\* from the end of the opening tag to the start of the closing tag.
C3_Original ==
  Done => \A k \in Segments :
            \A ic \in StatedConstructs(SegTokens(k)) :
              Unbroken(k, SegTokens(k), ic)

\* C3 (amended): the same for the constructs the left-to-right scan takes,
\* whose name is non-empty and has no "/" and whose opening tag does not lie
\* inside a construct taken before.
C3_NoBreakInsideDetectedConstruct ==
  Done => \A k \in Segments :
            \A ic \in ConstructsFrom(SegTokens(k), 0) :
              Unbroken(k, SegTokens(k), ic)

\* a finished call that broke a segment holding a detected construct whose
\* argument is longer than max_len, and that broke it after the construct
C3_Witness ==
  /\ Done
  /\ \E k \in Segments :
       \E ic \in ConstructsFrom(SegTokens(k), 0) :
         /\ ic[2] - ic[1] - 2 > max_len
         /\ \E b \in SegBreaks(k) : b > TokEnd(SegTokens(k), ic[2] + 1)

(* ------------------------------------------------------------------------ *)
(* C4                                                                       *)
(* ------------------------------------------------------------------------ *)

\* the offsets at which the lines of the wrapped segment k begin and end
LineCuts(k) == {0, Len(parts[k])} \cup SegBreaks(k)

\* the lines of the wrapped segment k, each as <<offset of its first
\* character, offset after its last character>>
Lines(k) ==
  {ln \in LineCuts(k) \X LineCuts(k) :
     /\ ln[1] < ln[2]
     /\ \A b \in LineCuts(k) : ~(ln[1] < b /\ b < ln[2])}

\* the indices of the Character tokens that stand in the line ln
LineVisible(toks, ln) ==
  {j \in 0..(Len(toks) - 1) :
     /\ ~Nth(toks, j).is_tag
     /\ ln[1] < TokEnd(toks, j) /\ TokEnd(toks, j) <= ln[2]}

\* the token indices inside the parentheses of a detected construct, both
\* parentheses included
ConstructIndices(toks) ==
  UNION {(ic[1] + 1)..ic[2] : ic \in ConstructsFrom(toks, 0)}

\* the first n of the token indices js
FirstOf(js, n) == {j \in js : Cardinality({i \in js : i < j}) < n}

\* the token indices js without the least and the greatest
Interior(js) ==
  {j \in js : (\E i \in js : i < j) /\ (\E i \in js : i > j)}

\* C4 as stated: no line has more than L visible characters, except where
\* no unprotected split position exists: where none of the first L visible
\* characters of the line is unprotected.
C4_Original ==
  Done => \A k \in Segments : \A ln \in Lines(k) :
            \/ Cardinality(LineVisible(SegTokens(k), ln)) <= max_len
            \/ FirstOf(LineVisible(SegTokens(k), ln), max_len)
                 \subseteq ConstructIndices(SegTokens(k))

\* C4 (amended): no line has more than L + 8 visible characters, except a
\* line whose visible characters other than its first and its last are all
\* protected.
C4_LineWithinWindow ==
  Done => \A k \in Segments : \A ln \in Lines(k) :
            \/ Cardinality(LineVisible(SegTokens(k), ln))
                 <= max_len + WINDOW_EXTRA
            \/ Interior(LineVisible(SegTokens(k), ln))
                 \subseteq ConstructIndices(SegTokens(k))

\* a finished call with a line of exactly L + 8 visible characters that
\* are not all protected, followed by another line
C4_Witness ==
  /\ Done
  /\ \E k \in Segments : \E ln \in Lines(k) :
       /\ Cardinality(LineVisible(SegTokens(k), ln)) = max_len + WINDOW_EXTRA
       /\ ~(Interior(LineVisible(SegTokens(k), ln))
              \subseteq ConstructIndices(SegTokens(k)))
       /\ ln[2] < Len(parts[k])

(* ------------------------------------------------------------------------ *)
(* C5                                                                       *)
(* ------------------------------------------------------------------------ *)

\* the number of Character tokens of txt
VisibleCount(txt) == Len(visible_token_indices(tokenize_preserving_tags(txt)))

\* the call returned the input, with changed = False
Unchanged == wrapped = text /\ ~changed

\* C5 as stated: if the input as a whole has at most L Character tokens,
\* the call returns it unchanged with changed = False.
C5_Original ==
  Done /\ VisibleCount(text) <= max_len => Unchanged

\* C5 (amended): if every newline-delimited segment of the input has at
\* most L Character tokens, the call returns the input unchanged with
\* changed = False; this includes the empty string.
C5_ShortSegmentsUnchanged ==
  Done /\ (\A k \in Segments : VisibleCount(parts[k]) <= max_len)
    => Unchanged

\* a finished call on a text of several segments, one of them with a tag and
\* exactly L visible characters, none with more
C5_Witness ==
  /\ Done
  /\ Len(parts) >= 2
  /\ \A k \in Segments : VisibleCount(parts[k]) <= max_len
  /\ \E k \in Segments : VisibleCount(parts[k]) = max_len /\ HasTag(parts[k])
  /\ Unchanged

(* ------------------------------------------------------------------------ *)
(* C6                                                                       *)
(* ------------------------------------------------------------------------ *)

\* the index of the first "\n" of txt, or -1
FirstNewline(txt) == FirstIndex(LAMBDA i : Nth(txt, i) = "\n", 0, Len(txt))

\* what wrap_zh_desc_text(txt, max_len) returns as its string
WrapOf(txt) == wrap_zh_desc_text(txt, max_len).wrapped

\* wrap(A + "\n" + B) = wrap(A) + "\n" + wrap(B) where the input is
\* A + "\n" + B with its first newline at index k
SplitsAt(k) ==
  wrapped = WrapOf(Slice(text, 0, k)) \o <<"\n">>
              \o WrapOf(Slice(text, k + 1, Len(text)))

\* C6: for an input A + "\n" + B with no newline in A, the result is the
\* result for A, a newline, and the result for B: the newline stays where
\* it was and each segment is wrapped on its own.
C6_SegmentsIndependent ==
  Done /\ FirstNewline(text) # -1 => SplitsAt(FirstNewline(text))

\* a finished call on A + "\n" + B with A not empty that broke a segment
\* of B
C6_Witness ==
  /\ Done
  /\ FirstNewline(text) > 0
  /\ \E k \in Segments : k >= 2 /\ SegBreaks(k) # {}
  /\ SplitsAt(FirstNewline(text))

(* ------------------------------------------------------------------------ *)
(* C7                                                                       *)
(* ------------------------------------------------------------------------ *)

\* the protected set of segment k
SegProtected(k) == find_protected_indices(SegTokens(k)).protected

\* the break after the first b characters of segment k stands right after a
\* Character token that is not protected
AfterFreeCharacter(k, b) ==
  \E j \in 0..(Len(SegTokens(k)) - 1) :
    /\ ~Nth(SegTokens(k), j).is_tag
    /\ TokEnd(SegTokens(k), j) = b
    /\ j \notin SegProtected(k)

\* the offsets right after the five visible characters of ExampleTagged
ExampleTaggedOffsets == {10, 11, 12, 13, 14}

\* C7: every inserted break stands right after a Character token that is
\* not in the protected set, never right after a tag or placeholder token
\* or a protected character; for the tagged example with L = 3 a break can
\* only stand after one of its five visible characters.
C7_BreakAfterFreeCharacter ==
  Done => /\ \A k \in Segments : \A b \in SegBreaks(k) :
               AfterFreeCharacter(k, b)
          /\ (text = ExampleTagged /\ max_len = 3
                => TextBreaks \subseteq ExampleTaggedOffsets)

\* a finished call that broke a segment which has protected characters
C7_Witness ==
  /\ Done
  /\ \E k \in Segments :
       /\ SegProtected(k) # {}
       /\ SegBreaks(k) # {}
       /\ Len(SegTokens(k)) > Cardinality(SegProtected(k)) + 3

(* ------------------------------------------------------------------------ *)
(* C8                                                                       *)
(* ------------------------------------------------------------------------ *)

\* the answer of the split chooser for the pass that is about to run
Chosen == choose_split_token(tokens, vis_indices, start_vis, max_len, protected)

\* the chooser finds no position or one at or after the cursor
ChosenNotBeforeCursor ==
  pc = "loop" => Chosen = -1 \/ NextStartVis(vis_indices, Chosen) > start_vis

\* a pass of the loop ends the loop or moves the cursor to a strictly
\* larger visible index
PassAdvances ==
  pc = "loop" =>
    \/ pc' = "assemble"
    \/ pc' = "loop" /\ start_vis' > start_vis
                    /\ start_vis' <= Len(vis_indices)

\* the result of the pass that is about to run
NextPass ==
  LoopBody(tokens, vis_indices, protected, max_len, insert_after, start_vis)

\* the pass that is about to run ends the loop or moves the cursor on
PassWillAdvance ==
  pc = "loop" => NextPass.ended \/ NextPass.start_vis > start_vis

\* the segments that wrap_segment has not returned yet
SegmentsLeft == Len(parts) - Len(wrapped_parts)

\* more than the steps one wrap_segment call can take
SegmentWeight == Len(text) + 3

\* a bound on the steps the running call can still take
Measure ==
  CASE pc = "segment" -> 1 + SegmentsLeft * SegmentWeight
    [] pc = "loop" -> (SegmentsLeft - 1) * SegmentWeight + 3
                        + (Len(vis_indices) - start_vis)
    [] pc = "assemble" -> (SegmentsLeft - 1) * SegmentWeight + 2
    [] OTHER -> 0

\* every step of the running call makes Measure smaller
MeasureDecreases == pc # "call" => Measure' < Measure

\* C8: the call terminates: every step of a running call decreases a
\* measure that is never negative; each pass of the assembler loop ends the
\* loop or moves start_vis to a strictly larger visible index, and the
\* chooser never answers with a position before the cursor.
C8_Terminates ==
  /\ [][MeasureDecreases]_vars
  /\ [][PassAdvances]_vars
  /\ [](Measure >= 0 /\ ChosenNotBeforeCursor /\ PassWillAdvance)

\* the loop is about to run a further pass after one that moved the cursor
C8_Witness ==
  /\ pc = "loop"
  /\ start_vis > 0
  /\ insert_after # {}
  /\ Chosen # -1

(* ------------------------------------------------------------------------ *)
(* C9                                                                       *)
(* ------------------------------------------------------------------------ *)

\* token i is an opening tag directly followed by "(" for which no ")"
\* directly followed by its closing tag comes later
Unmatched(toks, i) ==
  /\ InRange(toks, i) /\ Nth(toks, i).is_tag
  /\ parse_open_tag_name(Nth(toks, i).text) # <<>>
  /\ IsChar(toks, i + 1, "(")
  /\ \A c \in i..(Len(toks) - 1) :
       ~IsConstruct(toks, i, c, parse_open_tag_name, parse_close_tag_name)

\* the characters a result can be made of
ResultChars == {text[i] : i \in 1..Len(text)} \cup {"\n"}

\* C9: the call never raises: no subscript of the protected-span scan falls
\* outside the token sequence, the chooser answers -1 or the index of a
\* Character token, the cursor stays within the visible indices, and the
\* finished call has returned a string.
C9_Total ==
  /\ pc # "raised"
  /\ pc = "loop" => /\ Chosen \in {-1} \cup {Nth(vis_indices, i) :
                                               i \in 0..(Len(vis_indices) - 1)}
                    /\ start_vis \in 0..(Len(vis_indices) - 1)
  /\ Done => \A i \in 1..Len(wrapped) : wrapped[i] \in ResultChars

\* a finished call on a text with an opening "[x](" that nothing closes and
\* a bracket or brace that is no tag, which was broken
C9_Witness ==
  /\ Done
  /\ changed
  /\ \E k \in Segments :
       /\ \E i \in 0..(Len(SegTokens(k)) - 1) : Unmatched(SegTokens(k), i)
       /\ \E i \in 0..(Len(SegTokens(k)) - 1) :
            \E ch \in {"[", "]", "{", "}", ")"} : IsChar(SegTokens(k), i, ch)

(* ------------------------------------------------------------------------ *)
(* C10                                                                      *)
(* ------------------------------------------------------------------------ *)

\* the offsets right after the comma of ExampleSentence or next to it, and
\* right after the word that follows the comma
ExampleSentenceOffsets == {7, 8, 9, 10}

\* C10: for the example sentence with L = 14 exactly one break is inserted,
\* right after the full-width comma (or next to it) or right after the
\* word that follows it, so that the result is two non-empty lines.
C10_ExampleBreak ==
  Done /\ text = ExampleSentence /\ max_len = DEFAULT_MAX_LEN
    => /\ Cardinality(TextBreaks) = 1
       /\ TextBreaks \subseteq ExampleSentenceOffsets
       /\ Len(wrapped) = Len(text) + 1
       /\ wrapped[1] # "\n" /\ wrapped[Len(wrapped)] # "\n"

(* ------------------------------------------------------------------------ *)
(* C11                                                                      *)
(* ------------------------------------------------------------------------ *)

\* the target boundary and the end of the window of the pass about to run
CurEnd == EndVis(vis_indices, start_vis, max_len)
CurWindowEnd == WindowEnd(vis_indices, CurEnd)

\* the chooser is about to run and does not return at once: more than L
\* visible characters are left from the cursor on
Choosing == pc = "loop" /\ CurEnd < Len(vis_indices)

\* the visible positions of the window: start_vis .. window_end - 1
Window == start_vis..(CurWindowEnd - 1)

\* the visible positions of the window that hold an unprotected punctuation
\* character
PunctuationCandidates ==
  {i \in Window :
     /\ Nth(vis_indices, i) \notin protected
     /\ \E ch \in PUNCTUATION : Nth(tokens, Nth(vis_indices, i)).text = <<ch>>}

\* how far the line that ends after visible position i is from L characters
Distance(i) == Abs((i + 1) - CurEnd)

\* C11: when the window holds unprotected punctuation, the break is after
\* the punctuation character whose line length is closest to L, and of two
\* equally distant ones after the one at or before the boundary.
C11_PunctuationClosest ==
  Choosing /\ PunctuationCandidates # {} =>
    \E i \in PunctuationCandidates :
      /\ Chosen = Nth(vis_indices, i)
      /\ \A j \in PunctuationCandidates :
           \/ Distance(j) > Distance(i)
           \/ Distance(j) = Distance(i) /\ i <= j

\* the chooser is about to run with two unprotected punctuation characters
\* equally far from the boundary, one on each side, and takes the left one
C11_Witness ==
  /\ Choosing
  /\ \E i, j \in PunctuationCandidates :
       i < j /\ Distance(i) = Distance(j) /\ Chosen = Nth(vis_indices, i)

(* ------------------------------------------------------------------------ *)
(* C12                                                                      *)
(* ------------------------------------------------------------------------ *)

\* the visible character at visible position i
VisibleChar(i) == Nth(tokens, Nth(vis_indices, i)).text[1]

\* word stands in the window with its last character at visible position i
WordEndsAt(word, i) ==
  /\ i - Len(word) + 1 >= start_vis
  /\ \A k \in 1..Len(word) : VisibleChar(i - Len(word) + k) = word[k]

\* the visible positions of the window at which a priority word ends and
\* that are unprotected
WordCandidates ==
  {i \in Window :
     /\ Nth(vis_indices, i) \notin protected
     /\ \E w \in 1..Len(PRIORITY_SPLIT_WORDS) :
          WordEndsAt(PRIORITY_SPLIT_WORDS[w], i)}

\* the token indices at the visible positions is
TokensAt(is) == {Nth(vis_indices, i) : i \in is}

\* what the fallback tiers answer for the pass about to run
Fallback ==
  OrElse(fallback_left(vis_indices, start_vis, protected, CurEnd),
         fallback_right(vis_indices, protected, CurEnd))

\* C12: the tiers have strict priority: with unprotected punctuation in the
\* window the break is after a punctuation character, even when a priority
\* word ends right at the boundary; a break after a priority word is chosen
\* only without such punctuation; a fallback break only without both.
C12_TierPriority ==
  Choosing =>
    /\ PunctuationCandidates # {} =>
         Chosen \in TokensAt(PunctuationCandidates)
    /\ PunctuationCandidates = {} /\ WordCandidates # {} =>
         Chosen \in TokensAt(WordCandidates)
    /\ PunctuationCandidates = {} /\ WordCandidates = {} =>
         Chosen = Fallback

\* the chooser is about to run with a priority word that ends right at the
\* boundary and punctuation after it, and breaks after the punctuation
C12_Witness ==
  /\ Choosing
  /\ (CurEnd - 1) \in WordCandidates
  /\ PunctuationCandidates # {}
  /\ Chosen # Nth(vis_indices, CurEnd - 1)

(* ------------------------------------------------------------------------ *)
(* C13                                                                      *)
(* ------------------------------------------------------------------------ *)

\* the positions of the priority list
WordPositions == 1..Len(PRIORITY_SPLIT_WORDS)

\* the priority list with the words at positions a and b exchanged
Exchanged(a, b) ==
  [k \in WordPositions |->
     PRIORITY_SPLIT_WORDS[IF k = a THEN b ELSE IF k = b THEN a ELSE k]]

\* the priority list rotated by r, and the list in reverse order
Rotated(r) ==
  [k \in WordPositions |->
     PRIORITY_SPLIT_WORDS[((k + r - 1) % Len(PRIORITY_SPLIT_WORDS)) + 1]]
Reversed ==
  [k \in WordPositions |->
     PRIORITY_SPLIT_WORDS[Len(PRIORITY_SPLIT_WORDS) + 1 - k]]

\* the orders of the priority list that are compared: every exchange of two
\* words, every rotation, and the reverse order
WordOrders ==
  {Exchanged(a, b) : a \in WordPositions, b \in WordPositions}
    \cup {Rotated(r) : r \in WordPositions} \cup {Reversed}

\* what the semantic-word tier answers for the pass about to run when the
\* priority list is words
WordTierWith(words) ==
  semantic_word_tier(words, tokens, vis_indices, start_vis, protected,
                     CurEnd, CurWindowEnd)

\* C13: the answer of the semantic-word tier, and so of the chooser, does
\* not depend on the order of the words in the priority list.
C13_WordOrderIrrelevant ==
  Choosing =>
    \A words \in WordOrders :
      WordTierWith(words) = WordTierWith(PRIORITY_SPLIT_WORDS)

\* the chooser is about to run with no punctuation in the window and two
\* priority words that end equally far from the boundary, one on each side,
\* and breaks after the left one
C13_Witness ==
  /\ Choosing
  /\ PunctuationCandidates = {}
  /\ \E i, j \in WordCandidates :
       /\ i < j /\ Distance(i) = Distance(j)
       /\ Chosen = Nth(vis_indices, i)
       /\ \A words \in WordOrders : WordTierWith(words) = Chosen

(* ------------------------------------------------------------------------ *)
(* C14                                                                      *)
(* ------------------------------------------------------------------------ *)

\* the unprotected ones of the L visible positions from the cursor
\* (inclusive) up to the boundary
LeftFree ==
  {i \in start_vis..(CurEnd - 1) : Nth(vis_indices, i) \notin protected}

\* the greatest of the visible positions is
Greatest(is) == CHOOSE i \in is : \A j \in is : j <= i

\* no tier above the fallbacks has a candidate
NoCandidate == PunctuationCandidates = {} /\ WordCandidates = {}

\* C14: without a punctuation or word candidate, if one of the L positions
\* from the cursor (inclusive) up to the boundary is unprotected, the break
\* is after the nearest such position left of the boundary, so that the
\* line has at most L visible characters; the right fallback is used only
\* when all L positions are protected.
C14_LeftFallback ==
  Choosing /\ NoCandidate /\ LeftFree # {} =>
    Chosen = Nth(vis_indices, Greatest(LeftFree))

(* ------------------------------------------------------------------------ *)
(* C15                                                                      *)
(* ------------------------------------------------------------------------ *)

\* every visible position from the cursor to the end of the segment is
\* protected
AllProtectedFromCursor ==
  \A i \in start_vis..(Len(vis_indices) - 1) :
    Nth(vis_indices, i) \in protected

\* the offsets of the breaks that stand after the tokens of ins
OffsetsAfter(toks, ins) == {TokEnd(toks, j) : j \in ins}

\* C15: when every visible position from the cursor on is protected, the
\* chooser answers -1 and the pass ends the loop with the breaks placed so
\* far; the string that is then built has exactly those breaks, so the rest
\* stays over-length and unbroken.
C15_NoSplitStops ==
  /\ Choosing /\ AllProtectedFromCursor =>
       /\ Chosen = -1
       /\ NextPass.ended
       /\ NextPass.insert_after = insert_after
  /\ pc = "assemble" =>
       BreakOffsets(Assembled(Segment, tokens, insert_after))
         = OffsetsAfter(tokens, insert_after)

\* the chooser is about to run after a break was placed, with more than L
\* visible characters left, all of them protected
C15_Witness ==
  /\ Choosing
  /\ AllProtectedFromCursor
  /\ insert_after # {}
  /\ Chosen = -1

(* ------------------------------------------------------------------------ *)
(* C16                                                                      *)
(* ------------------------------------------------------------------------ *)

\* the number of visible characters of the line ln of segment k
LineLength(k, ln) == Cardinality(LineVisible(SegTokens(k), ln))

\* C16: for a segment with an empty protected set every line of the result
\* has at most L + 8 visible characters, and a break after punctuation or
\* after a priority word is never more than 8 visible characters past the
\* target boundary.
C16_BoundedOverflow ==
  /\ Done => \A k \in Segments :
       SegProtected(k) = {} =>
         \A ln \in Lines(k) : LineLength(k, ln) <= max_len + WINDOW_EXTRA
  /\ Choosing /\ ~NoCandidate =>
       \E i \in Window : /\ Chosen = Nth(vis_indices, i)
                         /\ (i + 1) - CurEnd <= WINDOW_EXTRA

\* a finished call on a text without protected characters whose result has
\* a line of exactly L + 8 visible characters
C16_Witness ==
  /\ Done
  /\ \E k \in Segments :
       /\ SegProtected(k) = {}
       /\ \E ln \in Lines(k) : LineLength(k, ln) = max_len + WINDOW_EXTRA

(* ------------------------------------------------------------------------ *)
(* C17                                                                      *)
(* ------------------------------------------------------------------------ *)

\* C17: the protected set of every segment is exactly the union, over the
\* constructs the left-to-right scan takes (an opening tag directly followed
\* by "(" and the first later ")" directly followed by a closing tag of the
\* same name, the scan going on after that closing tag), of the token
\* indices from the "(" through the ")"; an opening tag without such a
\* closing contributes nothing.
C17_ProtectedIsUnionOfConstructs ==
  \A k \in Segments :
    /\ ~find_protected_indices(SegTokens(k)).raised
    /\ SegProtected(k) = ConstructIndices(SegTokens(k))

\* a segment with a construct that has a tag embedded in its argument, and
\* with a later opening tag directly followed by "(" that finds no closing
C17_Witness ==
  \E k \in Segments :
    \E ic \in ConstructsFrom(SegTokens(k), 0) :
      /\ \E j \in (ic[1] + 2)..(ic[2] - 1) : Nth(SegTokens(k), j).is_tag
      /\ SegProtected(k) = (ic[1] + 1)..ic[2]
      /\ \E i \in (ic[1] + 1)..(Len(SegTokens(k)) - 1) :
           /\ Nth(SegTokens(k), i).is_tag
           /\ parse_open_tag_name(Nth(SegTokens(k), i).text) # <<>>
           /\ IsChar(SegTokens(k), i + 1, "(")

(* ------------------------------------------------------------------------ *)
(* C18                                                                      *)
(* ------------------------------------------------------------------------ *)

\* the name holds a "/"
HasSlash(name) == \E p \in 1..Len(name) : name[p] = "/"

\* token i of toks is a bracket tag that does not begin with "[/"
IsOpeningTag(toks, i) ==
  /\ Nth(toks, i).is_tag
  /\ Head(Nth(toks, i).text) = "["
  /\ ~StartsWith(Nth(toks, i).text, <<"[", "/">>)

\* token i of toks is a bracket tag that begins with "[/"
IsClosingTag(toks, i) ==
  Nth(toks, i).is_tag /\ StartsWith(Nth(toks, i).text, <<"[", "/">>)

\* token i does not lie inside a construct the scan has taken before
ReachedByScan(toks, i) ==
  \A jc \in ConstructsFrom(toks, 0) : ~(jc[1] < i /\ i <= jc[2] + 1)

\* the stated constructs of toks whose opening tag the scan reaches
ReachedConstructs(toks) ==
  {ic \in StatedConstructs(toks) : ReachedByScan(toks, ic[1])}

\* the closing tags are named by the text between "[/" and "]"
CloseNamesAsStated(toks) ==
  \A i \in 0..(Len(toks) - 1) :
    IsClosingTag(toks, i) =>
      parse_close_tag_name(Nth(toks, i).text)
        = StatedCloseName(Nth(toks, i).text)

\* C18 as stated: the detector names every opening tag by the text between
\* "[" and the first ":" or "]", names with "/" included, and "[n](...)[/n]"
\* is protected for every such name.
C18_Original ==
  \A k \in Segments :
    /\ \A i \in 0..(Len(SegTokens(k)) - 1) :
         IsOpeningTag(SegTokens(k), i) =>
           parse_open_tag_name(Nth(SegTokens(k), i).text)
             = StatedOpenName(Nth(SegTokens(k), i).text)
    /\ CloseNamesAsStated(SegTokens(k))
    /\ \A ic \in ReachedConstructs(SegTokens(k)) :
         (ic[1] + 1)..ic[2] \subseteq SegProtected(k)

\* C18 (amended): the detector names an opening tag by the text between "["
\* and the first ":" or "]" when that text holds no "/", and gives it no name
\* otherwise; a closing tag is named by the text between "[/" and "]"; and
\* "[n](...)[/n]" is protected for every name n without "/".
C18_NameUpToColonWithoutSlash ==
  \A k \in Segments :
    /\ \A i \in 0..(Len(SegTokens(k)) - 1) :
         IsOpeningTag(SegTokens(k), i) =>
           parse_open_tag_name(Nth(SegTokens(k), i).text)
             = IF HasSlash(StatedOpenName(Nth(SegTokens(k), i).text))
               THEN <<>>
               ELSE StatedOpenName(Nth(SegTokens(k), i).text)
    /\ CloseNamesAsStated(SegTokens(k))
    /\ \A ic \in ReachedConstructs(SegTokens(k)) :
         IF HasSlash(StatedOpenName(Nth(SegTokens(k), ic[1]).text))
         THEN (ic[1] + 1)..ic[2] \cap SegProtected(k) = {}
         ELSE (ic[1] + 1)..ic[2] \subseteq SegProtected(k)

\* a segment with a protected construct whose opening tag has an argument
\* after ":", so that its name is a proper part of the text in the brackets
C18_Witness ==
  \E k \in Segments :
    \E ic \in ReachedConstructs(SegTokens(k)) :
      /\ Len(Nth(SegTokens(k), ic[1]).text)
           > Len(StatedOpenName(Nth(SegTokens(k), ic[1]).text)) + 2
      /\ ~HasSlash(StatedOpenName(Nth(SegTokens(k), ic[1]).text))
      /\ (ic[1] + 1)..ic[2] \subseteq SegProtected(k)
      /\ ic[2] > ic[1] + 2

(* ------------------------------------------------------------------------ *)
(* C19                                                                      *)
(* ------------------------------------------------------------------------ *)

\* the texts of the tokens toks, in order
TokenTexts(toks) == [k \in 1..Len(toks) |-> toks[k].text]

\* s is one whole "[...]" span with at least one character and no bracket
\* inside, or one whole "{...}" span with no brace inside
IsTagSpan(s) ==
  \/ /\ Len(s) >= 3 /\ s[1] = "[" /\ s[Len(s)] = "]"
     /\ \A p \in 2..(Len(s) - 1) : s[p] \notin {"[", "]"}
  \/ /\ Len(s) >= 2 /\ s[1] = "{" /\ s[Len(s)] = "}"
     /\ \A p \in 2..(Len(s) - 1) : s[p] \notin {"{", "}"}

\* the tokens of txt, concatenated in order, are txt; a non-tag token is one
\* character and a tag token is one whole span
Lossless(txt) ==
  /\ Join(TokenTexts(tokenize_preserving_tags(txt))) = txt
  /\ \A k \in 1..Len(tokenize_preserving_tags(txt)) :
       IF tokenize_preserving_tags(txt)[k].is_tag
       THEN IsTagSpan(tokenize_preserving_tags(txt)[k].text)
       ELSE Len(tokenize_preserving_tags(txt)[k].text) = 1

\* C19: tokenization is lossless and keeps the order: the token texts of a
\* text (the whole text of the call, newlines included, and each of its
\* segments) concatenate to the text, every non-tag token is one character
\* and every tag token is one whole "[...]" or "{...}" span.
C19_TokenizationLossless ==
  /\ Lossless(text)
  /\ \A k \in Segments : Lossless(parts[k])
  /\ pc \in {"loop", "assemble"} => Join(TokenTexts(tokens)) = Segment

\* a text whose tokens are a bracket or brace that is no tag, then a tag,
\* then another character
C19_Witness ==
  /\ pc # "call"
  /\ \E k \in 1..(Len(tokenize_preserving_tags(text)) - 2) :
       /\ ~tokenize_preserving_tags(text)[k].is_tag
       /\ tokenize_preserving_tags(text)[k].text[1] \in {"[", "{"}
       /\ tokenize_preserving_tags(text)[k + 1].is_tag
       /\ ~tokenize_preserving_tags(text)[k + 2].is_tag

(* ------------------------------------------------------------------------ *)
(* C20                                                                      *)
(* ------------------------------------------------------------------------ *)

\* the row is one the claim lets the driver change: its KEY is non-empty,
\* does not start with "//" and contains "DESC" in any mix of cases
StatedSelected(row) ==
  /\ "KEY" \in DOMAIN row /\ row["KEY"] # None /\ row["KEY"] # <<>>
  /\ ~StartsWith(row["KEY"], <<"/", "/">>)
  /\ \E p \in 1..(Len(row["KEY"]) - 3) :
       /\ row["KEY"][p] \in {"D", "d"} /\ row["KEY"][p + 1] \in {"E", "e"}
       /\ row["KEY"][p + 2] \in {"S", "s"} /\ row["KEY"][p + 3] \in {"C", "c"}

\* the written row w has the columns of the row r of the input, and the
\* same values, but for the "zh" value of a row that may be changed
SameButZh(r, w) ==
  /\ DOMAIN w = DOMAIN r
  /\ \A c \in DOMAIN r : c # "zh" \/ ~StatedSelected(r) => w[c] = r[c]

C21_Idempotent ==
  Done =>
    /\ wrap_zh_desc_text(wrapped, max_len).wrapped = wrapped
    /\ ~wrap_zh_desc_text(wrapped, max_len).changed

(* ------------------------------------------------------------------------ *)
(* C22                                                                      *)
(* ------------------------------------------------------------------------ *)

\* a Character token of toks stands after the offset b
VisibleAfter(toks, b) ==
  \E j \in 0..(Len(toks) - 1) : ~Nth(toks, j).is_tag /\ TokEnd(toks, j) > b

\* C22: every break wrap inserts is followed, in its segment, by at least
\* one visible character: there is no break after the last visible character.
C22_NoBreakAfterLastVisible ==
  Done => \A k \in Segments :
            \A b \in SegBreaks(k) : VisibleAfter(SegTokens(k), b)

(* ------------------------------------------------------------------------ *)
(* C23                                                                      *)
(* ------------------------------------------------------------------------ *)

\* the step ends one pass of the chunk loop (lines 231-241)
EndsPass == translate_pc = "merge" /\ translate_pc' \in {"chunk", "done"}

\* the pass stops the loop because no key was added, or start becomes end
\* with end > start
StopsOrAdvances ==
  \/ added_count = 0 /\ translate_pc' = "done" /\ start' = start
  \/ added_count > 0 /\ start' = end /\ end > start

\* more than the steps one pass of the loop can take
PassWeight == MaxItems + 3

\* a bound on the steps the loop has left: the passes for the items from
\* start on, and the steps left in the running pass
TranslateMeasure ==
  IF translate_pc \in {"done", "raised"} THEN 0
  ELSE (Len(valid_data) - start) * PassWeight
         + (IF translate_pc = "chunk" THEN MaxItems + 2
            ELSE (MaxItems + 1) - merged)

\* C23: the chunk loop terminates for every sequence of LLM responses: each
\* pass either stops the loop because no new key was added or sets start to
\* end with end > start; start stays within the untranslated items and a
\* bound on the steps left decreases with every step.
C23_ChunkLoopTerminates ==
  /\ [][EndsPass => StopsOrAdvances]_vars
  /\ [][translate_pc # "load" => TranslateMeasure' < TranslateMeasure]_vars
  /\ [](/\ TranslateMeasure >= 0
        /\ start <= Len(valid_data)
        /\ translate_pc \in {"chunk", "merge"} => start < Len(valid_data))

\* the loop has ended after more than one pass, with start at the number of
\* untranslated items
C23_Witness ==
  /\ translate_pc = "done"
  /\ start = Len(valid_data)
  /\ Len(valid_data) > CHUNK_SIZE
  /\ added_count > 0

(* ------------------------------------------------------------------------ *)
(* C24                                                                      *)
(* ------------------------------------------------------------------------ *)

\* every key of the dictionary before keeps its value in the dictionary after
Kept(before, after) ==
  \A k \in DOMAIN before : k \in DOMAIN after /\ after[k] = before[k]

\* C24: once a KEY is in translated_parts, loaded or added by an earlier
\* response, no later step changes its en/zh value, in translated_parts and
\* in what is saved to translations.json.
C24_NeverOverwritten ==
  [][/\ Kept(translated_parts, translated_parts')
     /\ Kept(translate_file, translate_file')]_vars

\* a response item for the one key that was loaded from translations.json
\* has been merged, nothing was added and the loaded value is still stored
C24_Witness ==
  /\ translate_pc = "merge"
  /\ merged = 1 /\ added_count = 0
  /\ DOMAIN translated_parts = {<<"A", "_", "N">>}
  /\ translated_parts[<<"A", "_", "N">>] = [en |-> <<"o">>, zh |-> <<"o">>]

(* ------------------------------------------------------------------------ *)
(* C25                                                                      *)
(* ------------------------------------------------------------------------ *)

\* C25: two consecutive items whose KEYs have the same prefix (what stands
\* before the last "_") are of one key group, and no chunk ends between
\* them.
C25_GroupsNotSeparated ==
  /\ \A i \in 1..(Len(valid_data) - 1) :
       KeyPrefix(valid_data[i]["KEY"]) = KeyPrefix(valid_data[i + 1]["KEY"])
         => is_same_key_group(valid_data[i]["KEY"], valid_data[i + 1]["KEY"])
  /\ translate_pc = "merge" /\ end < Len(valid_data) =>
       KeyPrefix(valid_data[end]["KEY"])
         # KeyPrefix(valid_data[end + 1]["KEY"])

(* ------------------------------------------------------------------------ *)
(* C27                                                                      *)
(* ------------------------------------------------------------------------ *)

\* the inner scan run over every index j < n, reading tokens[j + 1] only
\* where it exists: the index of the first ")" directly followed by a closing
\* tag named tag_name, or -1
RECURSIVE CloseParenToEnd(_, _, _)
CloseParenToEnd(toks, tag_name, j) ==
  IF j >= Len(toks) THEN -1
  ELSE IF /\ ~Nth(toks, j).is_tag /\ Nth(toks, j).text = <<")">>
          /\ InRange(toks, j + 1) /\ Nth(toks, j + 1).is_tag
          /\ parse_close_tag_name(Nth(toks, j + 1).text) = tag_name
  THEN j
  ELSE CloseParenToEnd(toks, tag_name, j + 1)

\* token i opens a construct: a tag that does not begin with "[/", has a
\* name and is directly followed by "(", where that token exists
OpensAt(toks, i) ==
  /\ Nth(toks, i).is_tag
  /\ ~StartsWith(Nth(toks, i).text, <<"[", "/">>)
  /\ parse_open_tag_name(Nth(toks, i).text) # <<>>
  /\ IsChar(toks, i + 1, "(")

\* the same scan run over every index i < n with bounds checks
RECURSIVE ProtectedToEnd(_, _, _)
ProtectedToEnd(toks, i, prot) ==
  IF i >= Len(toks) THEN prot
  ELSE IF ~OpensAt(toks, i) THEN ProtectedToEnd(toks, i + 1, prot)
  ELSE IF CloseParenToEnd(toks, parse_open_tag_name(Nth(toks, i).text),
                          i + 2) = -1
  THEN ProtectedToEnd(toks, i + 1, prot)
  ELSE ProtectedToEnd(
         toks,
         CloseParenToEnd(toks, parse_open_tag_name(Nth(toks, i).text),
                         i + 2) + 2,
         prot \cup ((i + 1)..CloseParenToEnd(
                      toks, parse_open_tag_name(Nth(toks, i).text), i + 2)))

\* C27: the bounds "i < n - 3" and "j < n - 1" lose no protected span: for
\* the tokens of every segment find_protected_indices returns the set that
\* the same scan returns when it runs over every index up to the end with
\* bounds checks.
C27_LoopBoundsLoseNothing ==
  \A k \in Segments :
    SegProtected(k) = ProtectedToEnd(SegTokens(k), 0, {})

\* a segment that is one construct of exactly four tokens, all of them
\* within the last four, and whose "(" and ")" are protected
C27_Witness ==
  \E k \in Segments :
    /\ Len(SegTokens(k)) = 4
    /\ OpensAt(SegTokens(k), 0)
    /\ SegProtected(k) = {1, 2}

(* ------------------------------------------------------------------------ *)
(* C26                                                                      *)
(* ------------------------------------------------------------------------ *)

\* the issue types the fixer is to remove
FixedIssueTypes ==
  {"invalid_m_literal_dots", "invalid_m_contains_cjk",
   "broken_variable_newline"}

\* C26: the checker, run on the output of the fixer, reports no issue of
\* type invalid_m_literal_dots, invalid_m_contains_cjk or
\* broken_variable_newline.
C26_FixerRemovesWhatCheckerReports ==
  fix_pc = "done" =>
    \A k \in 1..Len(issues) : issues[k] \notin FixedIssueTypes

====
